---------------------------- MODULE Spec2Model ----------------------------
(***************************************************************************)
(* A model of the hikari HTTP dispatcher: the pattern utility              *)
(* (normalizedPattern, isValidPattern, buildPattern), the route table and  *)
(* its matcher (router.handle, router.serveContext), route groups          *)
(* (Group.Group, Group.Use, Group.handle) and the composition of the       *)
(* middleware chain (App.buildHandler).                                    *)
(*                                                                         *)
(* A Go string is a sequence of one-character strings, so that prefix,     *)
(* split, trim and join are computed as the code computes them.  A Go      *)
(* slice is a header [arr, len] over a backing array of the heap, so that  *)
(* two slices sharing storage are distinguishable from two that do not.    *)
(***************************************************************************)
EXTENDS Integers, Sequences, FiniteSets, TLC

VARIABLES
    appMiddlewares,  \* App.middlewares, in App.Use order
    routes,          \* router.routes, in registration order
    reg,             \* history: for each route, the registration call that made it
    groups,          \* the Group values created so far (parent, chain, given: history)
    heap,            \* backing arrays of the groups' middleware slices
    panicked,        \* the registration call that panicked and crashed the program, if any
    serving,         \* ListenAndServe has installed the handler
    resp,            \* the last request served and its outcome
    pin,             \* pattern harness: the input string
    pres,            \* pattern harness: the last result computed from pin
    wsManager,       \* App.wsManager is set (WithWebSocket was called)
    wmHubs,          \* WebSocketManager.hubs: hub name -> hub (0: no entry)
    hubs,            \* the WebSocketHub values created so far, with their loops
    conns,           \* the Upgrade calls made so far, with their connections
    sends,           \* the tasks calling Send or SendToConnection
    bcasts,          \* history: the Hub.Broadcast calls made so far
    wsPanics,        \* history: the panics raised in the WebSocket code
    wsCalls,         \* history: the calls and outside events (a peer leaving, a
                     \* timer firing, a handshake failing) so far
    sendCap,         \* the capacity Upgrade gives a connection's send channel
    shutdown         \* App.Shutdown was called and has returned

vars == <<appMiddlewares, routes, reg, groups, heap, panicked, serving, resp,
          pin, pres,
          wsManager, wmHubs, hubs, conns, sends, bcasts, wsPanics, wsCalls,
          sendCap, shutdown>>

cfgVars == <<sendCap, shutdown>>

wsVars == <<wsManager, wmHubs, hubs, conns, sends, bcasts, wsPanics, wsCalls, cfgVars>>

appVars == <<appMiddlewares, routes, reg, groups, heap, panicked, serving, resp>>
patVars == <<pin, pres>>

None == [op |-> "none"]

-----------------------------------------------------------------------------
(* Bounds *)

MaxLen == 4        \* longest input string of the pattern harness
MaxRoutes == 2     \* routes registered in the matcher scenario
MaxGroupRoutes == 1 \* routes registered in the group scenario
MaxGroups == 2     \* groups created
MaxGroupMws == 4   \* longest middleware list of a group
MaxAppUse == 2     \* App.Use calls
MaxQueue == 1      \* capacity of a connection's send channel (256 in the code)
MaxSenders == 2    \* tasks calling Send concurrently
MaxCalls == 4      \* calls and outside events in the hub scenario
MaxOpsCalls == 3   \* calls and outside events in the operations scenario
MaxOrderCalls == 3 \* calls and outside events in the broadcast scenario
MaxCancelCalls == 2 \* calls and outside events in the cancellation scenario

-----------------------------------------------------------------------------
(* Go strings *)

Letter ==
    {"a","b","c","d","e","f","g","h","i","j","k","l","m","n","o","p","q","r",
     "s","t","u","v","w","x","y","z","A","B","C","D","E","F","G","H","I","J",
     "K","L","M","N","O","P","Q","R","S","T","U","V","W","X","Y","Z"}

Digit == {"0","1","2","3","4","5","6","7","8","9"}

\* strings.HasPrefix(s, c) for a one-character prefix c
HasPrefix(s, c) == Len(s) > 0 /\ s[1] = c

\* strings.HasSuffix(s, c) for a one-character suffix c
HasSuffix(s, c) == Len(s) > 0 /\ s[Len(s)] = c

\* strings.Contains(s, c) for a one-character c
Contains(s, c) == \E i \in 1..Len(s) : s[i] = c

\* duplicateSlashRegex.ReplaceAllString(s, "/"): every maximal run of '/' becomes one
RECURSIVE ReplaceDuplicateSlashes(_)
ReplaceDuplicateSlashes(s) ==
    IF Len(s) < 2 THEN s
    ELSE IF s[1] = "/" /\ s[2] = "/" THEN ReplaceDuplicateSlashes(Tail(s))
    ELSE <<s[1]>> \o ReplaceDuplicateSlashes(Tail(s))

\* strings.Split(s, "/"): the parts between the slashes, empty parts included
RECURSIVE SplitAcc(_, _, _)
SplitAcc(s, cur, acc) ==
    IF s = <<>> THEN Append(acc, cur)
    ELSE IF s[1] = "/" THEN SplitAcc(Tail(s), <<>>, Append(acc, cur))
    ELSE SplitAcc(Tail(s), Append(cur, s[1]), acc)

Split(s) == SplitAcc(s, <<>>, <<>>)

\* strings.Trim(s, "/"): all leading and all trailing slashes removed
RECURSIVE TrimLeft(_)
TrimLeft(s) == IF HasPrefix(s, "/") THEN TrimLeft(Tail(s)) ELSE s

RECURSIVE TrimRight(_)
TrimRight(s) ==
    IF HasSuffix(s, "/") THEN TrimRight(SubSeq(s, 1, Len(s) - 1)) ELSE s

Trim(s) == TrimRight(TrimLeft(s))

\* A plausible slip: the parts are joined without the separator.
RECURSIVE JoinNoSeparator(_)
JoinNoSeparator(parts) ==
    IF parts = <<>> THEN <<>> ELSE parts[1] \o JoinNoSeparator(Tail(parts))

\* strings.Join(parts, "/")
RECURSIVE Join(_)
Join(parts) ==
    IF parts = <<>> THEN <<>>
    ELSE IF Len(parts) = 1 THEN parts[1]
    ELSE parts[1] \o <<"/">> \o Join(Tail(parts))

-----------------------------------------------------------------------------
(* Pattern utility *)

\* validPatternRegex: ^[a-zA-Z0-9/:*_-]*$
validPatternRegex(s) ==
    \A i \in 1..Len(s) : s[i] \in Letter \cup Digit \cup {"/", ":", "*", "_", "-"}

\* ^[a-zA-Z_][a-zA-Z0-9_]*$
paramNameRegex(s) ==
    /\ Len(s) >= 1
    /\ s[1] \in Letter \cup {"_"}
    /\ \A i \in 2..Len(s) : s[i] \in Letter \cup Digit \cup {"_"}

\* A plausible slip: the trailing slash is trimmed before the duplicate slashes
\* are collapsed.
normalizedPatternTrimFirst(pattern) ==
    IF pattern = <<>> THEN <<"/">>
    ELSE LET p1 == IF ~HasPrefix(pattern, "/") THEN <<"/">> \o pattern ELSE pattern
             p2 == IF Len(p1) > 1 /\ HasSuffix(p1, "/")
                   THEN SubSeq(p1, 1, Len(p1) - 1) ELSE p1
         IN  ReplaceDuplicateSlashes(p2)

normalizedPattern(pattern) ==
    IF pattern = <<>> THEN <<"/">>
    ELSE LET p1 == IF ~HasPrefix(pattern, "/") THEN <<"/">> \o pattern ELSE pattern
             p2 == ReplaceDuplicateSlashes(p1)
         IN  IF Len(p2) > 1 /\ HasSuffix(p2, "/")
             THEN SubSeq(p2, 1, Len(p2) - 1) ELSE p2

\* one iteration of the loop of isValidPattern: TRUE when the part is accepted
validPart(part) ==
    IF part = <<>> THEN TRUE
    ELSE /\ HasPrefix(part, ":") =>
              /\ Len(part) # 1
              /\ paramNameRegex(Tail(part))
         /\ ~(Contains(part, "*") /\ part # <<"*">>)

isValidPattern(pattern) ==
    /\ validPatternRegex(pattern)
    /\ LET parts == Split(pattern)
       IN  \A i \in 1..Len(parts) : validPart(parts[i])

\* "" (the empty sequence) when the pattern is invalid
buildPattern(prefix, pattern) ==
    LET fullPattern == normalizedPattern(prefix \o pattern)
    IN  IF ~isValidPattern(fullPattern) THEN <<>> ELSE fullPattern

-----------------------------------------------------------------------------
(* Go slices over the heap *)

\* A middleware or handler value is a label <<kind, number>>; the zero value is nil.
Zero == <<"nil", 0>>

NilSlice == [arr |-> 0, len |-> 0]

\* cap(s)
Cap(h, s) == IF s.arr = 0 THEN 0 ELSE Len(h[s.arr])

\* the elements s[0:len(s)]
Elems(h, s) == IF s.arr = 0 THEN <<>> ELSE SubSeq(h[s.arr], 1, s.len)

\* make([]Middleware, n): n zero values
MakeArray(n) == [i \in 1..n |-> Zero]

\* copy(dst[off:], src) on the array dst: min(len(dst)-off, len(src)) elements
GoCopy(dst, off, src) ==
    [i \in 1..Len(dst) |->
        IF i > off /\ i - off <= Len(src) THEN src[i - off] ELSE dst[i]]

\* the slice a variadic call f(xs...) hands to the callee: nil without arguments,
\* else a fresh array holding exactly the arguments
VarArgs(h, xs) ==
    IF xs = <<>> THEN [heap |-> h, slice |-> NilSlice]
    ELSE [heap |-> Append(h, xs), slice |-> [arr |-> Len(h) + 1, len |-> Len(xs)]]

\* append(s, x): in place when capacity is left, else into a grown copy
GoAppend(h, s, x) ==
    IF s.len < Cap(h, s)
    THEN [heap  |-> [h EXCEPT ![s.arr][s.len + 1] = x],
          slice |-> [arr |-> s.arr, len |-> s.len + 1]]
    ELSE LET newcap == IF Cap(h, s) = 0 THEN 1 ELSE 2 * Cap(h, s)
             grown  == GoCopy(GoCopy(MakeArray(newcap), 0, Elems(h, s)), s.len, <<x>>)
         IN  [heap  |-> Append(h, grown),
              slice |-> [arr |-> Len(h) + 1, len |-> s.len + 1]]

\* Garbage collection: the arrays no group's slice refers to are dropped and the
\* others renumbered in the order the groups first refer to them (an address is
\* not observable, the sharing of an array is and is kept).
Collect(gs, h) ==
    LET arrOf(g) == gs[g].middlewares.arr
        first    == {g \in 1..Len(gs) :
                        arrOf(g) # 0 /\ \A k \in 1..(g - 1) : arrOf(k) # arrOf(g)}
        rank(g)  == Cardinality({k \in first : k <= g})
        owner(a) == CHOOSE g \in first : arrOf(g) = a
        nth(i)   == CHOOSE g \in first : rank(g) = i
    IN  [heap   |-> [i \in 1..Cardinality(first) |-> h[arrOf(nth(i))]],
         groups |-> [g \in 1..Len(gs) |->
                        IF arrOf(g) = 0 THEN gs[g]
                        ELSE [gs[g] EXCEPT !.middlewares.arr = rank(owner(arrOf(g)))]]]

-----------------------------------------------------------------------------
(* Route table and matcher *)

Put(f, k, v) == [x \in DOMAIN f \cup {k} |-> IF x = k THEN v ELSE f[x]]

EmptyParams == <<>>

splitPath(p) ==
    LET t == Trim(p)
    IN  IF t = <<>> THEN <<>> ELSE Split(t)

\* the loop "for i := 0; i < partsToCheck; i++" of serveContext (i is 1-based here)
RECURSIVE checkParts(_, _, _, _, _)
checkParts(pParts, rParts, i, partsToCheck, params) ==
    IF i > partsToCheck THEN [matched |-> TRUE, params |-> params]
    ELSE IF HasPrefix(pParts[i], ":")
         THEN checkParts(pParts, rParts, i + 1, partsToCheck,
                         Put(params, Tail(pParts[i]), rParts[i]))
    ELSE IF pParts[i] # rParts[i] THEN [matched |-> FALSE, params |-> params]
    ELSE checkParts(pParts, rParts, i + 1, partsToCheck, params)

\* A plausible slip: a route without wildcard is skipped only when the request has
\* fewer segments than the pattern ("<" for "!=").
matchRouteAtLeast(pattern, path) ==
    LET requestPath  == normalizedPattern(path)
        pParts       == splitPath(pattern)
        rParts       == splitPath(requestPath)
        hasWildcard  == Len(pParts) > 0 /\ pParts[Len(pParts)] = <<"*">>
        partsToCheck == IF hasWildcard THEN Len(pParts) - 1 ELSE Len(pParts)
    IN  IF hasWildcard /\ Len(rParts) < Len(pParts) - 1
        THEN [matched |-> FALSE, params |-> EmptyParams]
        ELSE IF ~hasWildcard /\ Len(rParts) < Len(pParts)
        THEN [matched |-> FALSE, params |-> EmptyParams]
        ELSE LET c == checkParts(pParts, rParts, 1, partsToCheck, EmptyParams)
             IN  IF c.matched /\ hasWildcard /\ Len(rParts) > partsToCheck
                 THEN [matched |-> TRUE,
                       params  |-> Put(c.params, <<"*">>,
                                       Join(SubSeq(rParts, partsToCheck + 1, Len(rParts))))]
                 ELSE c

\* A plausible slip: the request path is split as it came, without normalizing it.
matchRouteRaw(pattern, path) ==
    LET pParts       == splitPath(pattern)
        rParts       == splitPath(path)
        hasWildcard  == Len(pParts) > 0 /\ pParts[Len(pParts)] = <<"*">>
        partsToCheck == IF hasWildcard THEN Len(pParts) - 1 ELSE Len(pParts)
    IN  IF hasWildcard /\ Len(rParts) < Len(pParts) - 1
        THEN [matched |-> FALSE, params |-> EmptyParams]
        ELSE IF ~hasWildcard /\ Len(pParts) # Len(rParts)
        THEN [matched |-> FALSE, params |-> EmptyParams]
        ELSE LET c == checkParts(pParts, rParts, 1, partsToCheck, EmptyParams)
             IN  IF c.matched /\ hasWildcard /\ Len(rParts) > partsToCheck
                 THEN [matched |-> TRUE,
                       params  |-> Put(c.params, <<"*">>,
                                       Join(SubSeq(rParts, partsToCheck + 1, Len(rParts))))]
                 ELSE c

\* the body of serveContext's loop for one route of the request's method
matchRoute(pattern, path) ==
    LET requestPath  == normalizedPattern(path)
        pParts       == splitPath(pattern)
        rParts       == splitPath(requestPath)
        hasWildcard  == Len(pParts) > 0 /\ pParts[Len(pParts)] = <<"*">>
        partsToCheck == IF hasWildcard THEN Len(pParts) - 1 ELSE Len(pParts)
    IN  IF hasWildcard /\ Len(rParts) < Len(pParts) - 1
        THEN [matched |-> FALSE, params |-> EmptyParams]
        ELSE IF ~hasWildcard /\ Len(pParts) # Len(rParts)
        THEN [matched |-> FALSE, params |-> EmptyParams]
        ELSE LET c == checkParts(pParts, rParts, 1, partsToCheck, EmptyParams)
             IN  IF c.matched /\ hasWildcard /\ Len(rParts) > partsToCheck
                 THEN [matched |-> TRUE,
                       params  |-> Put(c.params, <<"*">>,
                                       Join(SubSeq(rParts, partsToCheck + 1, Len(rParts))))]
                 ELSE c

\* A handler is modelled by the sequence of side effects one call of it produces.
\* A marker middleware m records its entry, calls next, and records its exit.
Wrap(m, h) == << <<"in", m>> >> \o h \o << <<"out", m>> >>

\* "for i := len(mws) - 1; i >= 0; i-- { handler = mws[i](handler) }"
RECURSIVE applyMiddlewares(_, _, _)
applyMiddlewares(mws, i, handler) ==
    IF i < 1 THEN handler
    ELSE applyMiddlewares(mws, i - 1, Wrap(mws[i], handler))

StatusOK == 200
StatusNotFound == 404

\* A plausible slip: the table is scanned from the last route to the first.
RECURSIVE serveContextBackwards(_, _, _, _)
serveContextBackwards(rts, i, method, path) ==
    LET j == Len(rts) + 1 - i
    IN
    IF i > Len(rts)
    THEN [route |-> 0, params |-> EmptyParams, status |-> StatusNotFound,
          ran |-> <<>>, trace |-> << <<"notfound", <<"http", 0>>>> >>]
    ELSE IF rts[j].method # method THEN serveContextBackwards(rts, i + 1, method, path)
    ELSE LET m == matchRoute(rts[j].pattern, path)
         IN  IF m.matched
             THEN [route |-> j, params |-> m.params, status |-> StatusOK,
                   ran |-> <<rts[j].handler>>,
                   trace |-> applyMiddlewares(rts[j].middlewares, Len(rts[j].middlewares),
                                              << <<"handler", rts[j].handler>> >>)]
             ELSE serveContextBackwards(rts, i + 1, method, path)

\* A plausible slip: the method test is left out, a route of another method wins.
RECURSIVE serveContextAnyMethod(_, _, _, _)
serveContextAnyMethod(rts, i, method, path) ==
    IF i > Len(rts)
    THEN [route |-> 0, params |-> EmptyParams, status |-> StatusNotFound,
          ran |-> <<>>, trace |-> << <<"notfound", <<"http", 0>>>> >>]
    ELSE LET m == matchRoute(rts[i].pattern, path)
         IN  IF m.matched
             THEN [route |-> i, params |-> m.params, status |-> StatusOK,
                   ran |-> <<rts[i].handler>>,
                   trace |-> applyMiddlewares(rts[i].middlewares, Len(rts[i].middlewares),
                                              << <<"handler", rts[i].handler>> >>)]
             ELSE serveContextAnyMethod(rts, i + 1, method, path)

\* what the loops over the first n routes would leave in one map shared by all
\* routes
RECURSIVE sharedParams(_, _, _, _)
sharedParams(rts, n, method, path) ==
    IF n = 0 THEN EmptyParams
    ELSE IF rts[n].method # method THEN sharedParams(rts, n - 1, method, path)
    ELSE LET before == sharedParams(rts, n - 1, method, path)
             made   == matchRoute(rts[n].pattern, path).params
         IN  [x \in DOMAIN before \cup DOMAIN made |->
                 IF x \in DOMAIN made THEN made[x] ELSE before[x]]

\* A plausible slip: one params map for the whole scan instead of one per route.
RECURSIVE serveContextSharedParams(_, _, _, _)
serveContextSharedParams(rts, i, method, path) ==
    IF i > Len(rts)
    THEN [route |-> 0, params |-> EmptyParams, status |-> StatusNotFound,
          ran |-> <<>>, trace |-> << <<"notfound", <<"http", 0>>>> >>]
    ELSE IF rts[i].method # method THEN serveContextSharedParams(rts, i + 1, method, path)
    ELSE LET m == matchRoute(rts[i].pattern, path)
         IN  IF m.matched
             THEN [route |-> i, params |-> sharedParams(rts, i, method, path),
                   status |-> StatusOK,
                   ran |-> <<rts[i].handler>>,
                   trace |-> applyMiddlewares(rts[i].middlewares, Len(rts[i].middlewares),
                                              << <<"handler", rts[i].handler>> >>)]
             ELSE serveContextSharedParams(rts, i + 1, method, path)

\* router.serveContext from route i on: the winning route, the params it leaves in
\* the context, the recorded status, the route handlers run and the side effects
RECURSIVE serveContextFrom(_, _, _, _)
serveContextFrom(rts, i, method, path) ==
    IF i > Len(rts)
    THEN [route |-> 0, params |-> EmptyParams, status |-> StatusNotFound,
          ran |-> <<>>, trace |-> << <<"notfound", <<"http", 0>>>> >>]
    ELSE IF rts[i].method # method THEN serveContextFrom(rts, i + 1, method, path)
    ELSE LET m == matchRoute(rts[i].pattern, path)
         IN  IF m.matched
             THEN [route |-> i, params |-> m.params, status |-> StatusOK,
                   ran |-> <<rts[i].handler>>,
                   trace |-> applyMiddlewares(rts[i].middlewares, Len(rts[i].middlewares),
                                              << <<"handler", rts[i].handler>> >>)]
             ELSE serveContextFrom(rts, i + 1, method, path)

serveContext(rts, method, path) == serveContextFrom(rts, 1, method, path)

Logger == <<"logger", 0>>
Recovery == <<"recovery", 0>>

\* the handler App.buildHandler installs, run on one request
buildHandler(mws, rts, method, path) ==
    LET r       == serveContext(rts, method, path)
        user    == applyMiddlewares(mws, Len(mws), r.trace)
        logged  == Wrap(Logger, user)
        handler == Wrap(Recovery, logged)
    IN  [method |-> method, path |-> path, route |-> r.route, params |-> r.params,
         status |-> r.status, ran |-> r.ran, trace |-> handler]

-----------------------------------------------------------------------------
(* Response writer and panic recovery *)

StatusInternalServerError == 500

\* newResponseWriter: the status defaults to 200 and nothing is written yet
\* (sink and calls are history: the codes passed to the WriteHeader of the
\* underlying http.ResponseWriter, and the calls made on the wrapper)
newResponseWriter ==
    [statusCode |-> StatusOK, written |-> FALSE, sink |-> <<>>, calls |-> <<>>]

\* a call on the wrapper, recorded
Called(rw, call) == [rw EXCEPT !.calls = Append(@, call)]

\* (variant: every call records its code and reaches the underlying writer)
WriteHeaderAlways(rw, code) ==
    [Called(rw, <<"WriteHeader", code>>) EXCEPT !.statusCode = code,
                                                 !.written = TRUE,
                                                 !.sink = Append(@, code)]

\* responseWriter.WriteHeader: only the first call records its code and
\* calls the WriteHeader of the underlying writer
WriteHeader(rw, code) ==
    IF ~rw.written
    THEN [Called(rw, <<"WriteHeader", code>>) EXCEPT !.statusCode = code,
                                                      !.written = TRUE,
                                                      !.sink = Append(@, code)]
    ELSE Called(rw, <<"WriteHeader", code>>)

\* "if !rw.written { rw.WriteHeader(200) }", before the body is passed on
writeBody(rw) == IF ~rw.written THEN WriteHeader(rw, StatusOK) ELSE rw

\* responseWriter.Write: an implicit WriteHeader(200) when nothing was written
Write(rw) == writeBody(Called(rw, <<"Write", 0>>))

\* http.Error and http.NotFound: WriteHeader(code), then the message as body
httpError(rw, code) == Write(WriteHeader(rw, code))

\* the deferred function of App.recoveryMiddleware, when recover() returns a panic
recoverPanic(rw) == httpError(rw, StatusInternalServerError)

\* What a handler does on one request: a sequence of writer calls, possibly
\* ended by a panic.  The outcome is the writer and whether the body panicked.
RECURSIVE runScript(_, _, _)
runScript(script, i, rw) ==
    IF i > Len(script) THEN [rw |-> rw, panics |-> FALSE]
    ELSE IF script[i][1] = "panic" THEN [rw |-> rw, panics |-> TRUE]
    ELSE IF script[i][1] = "WriteHeader"
         THEN runScript(script, i + 1, WriteHeader(rw, script[i][2]))
    ELSE runScript(script, i + 1, Write(rw))

\* The composed chain run event by event.  The event at position faultAt, if
\* it is a user middleware's, panics (before or after the middleware calls
\* next); the route handler runs its script.  A panic unwinds to the recovery wrapper, the outermost event.
RECURSIVE runChain(_, _, _, _, _)
runChain(trace, i, script, faultAt, rw) ==
    IF i > Len(trace) THEN [rw |-> rw, panics |-> FALSE, at |-> 0]
    ELSE IF i = faultAt /\ trace[i][1] \in {"in", "out"}
                       /\ trace[i][2] \notin {Recovery, Logger}
         THEN [rw |-> recoverPanic(rw), panics |-> TRUE, at |-> i]
    ELSE IF trace[i][1] = "handler"
         THEN LET r == runScript(script, 1, rw)
              IN  IF r.panics
                  THEN [rw |-> recoverPanic(r.rw), panics |-> TRUE, at |-> i]
                  ELSE runChain(trace, i + 1, script, faultAt, r.rw)
    ELSE IF trace[i][1] = "notfound"
         THEN runChain(trace, i + 1, script, faultAt, httpError(rw, StatusNotFound))
    ELSE runChain(trace, i + 1, script, faultAt, rw)

\* the event of the chain at which the logger's "next(c)" returns
LoggerOut(trace) == CHOOSE k \in 1..Len(trace) : trace[k] = <<"out", Logger>>

\* c.GetStatus() when "next(c)" has returned to the logger: the status the
\* writer has recorded by then
statusAtLogger(trace, script) ==
    runChain(SubSeq(trace, 1, LoggerOut(trace) - 1), 1, script, 0,
             newResponseWriter).rw.statusCode

\* App.loggerMiddleware on one request whose chain has the outcome r: "Request
\* started" is logged before "next(c)"; "Request completed", with
\* c.GetStatus(), is logged by the statements after it, which a panic inside
\* "next(c)" unwinds past
loggerMiddleware(trace, script, r) ==
    IF r.panics
    THEN << <<"started", 0>> >>
    ELSE << <<"started", 0>>, <<"completed", statusAtLogger(trace, script)>> >>

\* the response of one request: what the chain b did, with the writer's outcome r
faultyResponse(b, r, script) ==
    [method |-> b.method, path |-> b.path, route |-> b.route, params |-> b.params,
     status |-> r.rw.statusCode, ran |-> b.ran, trace |-> b.trace,
     panics |-> r.panics, at |-> r.at, script |-> script,
     written |-> r.rw.written, log |-> loggerMiddleware(b.trace, script, r),
     calls |-> r.rw.calls, sink |-> r.rw.sink]

\* the chain b run on a fresh response writer
faultyOutcome(b, script, faultAt) ==
    faultyResponse(b, runChain(b.trace, 1, script, faultAt, newResponseWriter), script)

\* the handler App.buildHandler installs, run on one request whose handler
\* follows script and whose chain panics at faultAt (0: nowhere)
buildHandlerFaulty(mws, rts, method, path, script, faultAt) ==
    faultyOutcome(buildHandler(mws, rts, method, path), script, faultAt)

-----------------------------------------------------------------------------
(* Registration: App and Group *)

\* router.handle: the route appended to the table
routerHandle(rts, method, pattern, handler, mws) ==
    Append(rts, [method      |-> method,
                 pattern     |-> buildPattern(<<>>, pattern),
                 handler     |-> handler,
                 middlewares |-> mws])

\* A plausible slip: without new middlewares the child keeps the parent's slice
\* instead of a copy.
groupGroupShared(h, parent, mws) ==
    IF mws = <<>> THEN [heap |-> h, slice |-> parent]
    ELSE LET n   == parent.len
             arr == GoCopy(GoCopy(MakeArray(n + Len(mws)), 0, Elems(h, parent)), n, mws)
         IN  [heap  |-> Append(h, arr),
              slice |-> [arr |-> Len(h) + 1, len |-> n + Len(mws)]]

\* the middleware slice Group.Group builds for the child: make, copy, copy
groupGroupMiddlewares(h, parent, mws) ==
    LET n   == parent.len
        arr == GoCopy(GoCopy(MakeArray(n + Len(mws)), 0, Elems(h, parent)), n, mws)
    IN  [heap  |-> Append(h, arr),
         slice |-> [arr |-> Len(h) + 1, len |-> n + Len(mws)]]

\* the middleware list Group.handle builds: make([]Middleware, 0, n+m) has length
\* 0, copy copies min(len(dst), len(src)) elements, and allMiddlewares[n:] (high
\* defaults to the length) panics when n exceeds the length
groupHandleMiddlewares(inherited, mws) ==
    LET all == MakeArray(0)
        c1  == GoCopy(all, 0, inherited)
        ok  == Len(inherited) <= Len(c1)
        c2  == IF ok THEN GoCopy(c1, Len(inherited), mws) ELSE c1
    IN  [panics |-> ~ok, list |-> c2]

GroupMws(gs, h, g) == Elems(h, gs[g].middlewares)

NoPanic == [op |-> "none"]

Setup == ~serving /\ panicked = NoPanic

\* App.Use(middleware)
AppUse ==
    /\ Setup
    /\ Len(appMiddlewares) < MaxAppUse
    /\ appMiddlewares' = Append(appMiddlewares, <<"G", Len(appMiddlewares) + 1>>)
    /\ UNCHANGED <<routes, reg, groups, heap, panicked, serving, resp, pin, pres>>

\* App.Group(prefix, mws...)
AppGroup(prefix, mws) ==
    /\ Setup
    /\ Len(groups) < MaxGroups
    /\ LET va == VarArgs(heap, mws)
           gs == Append(groups, [prefix |-> prefix, middlewares |-> va.slice,
                                 parent |-> 0, chain |-> <<prefix>>, given |-> mws])
           gc == Collect(gs, va.heap)
       IN  heap' = gc.heap /\ groups' = gc.groups
    /\ UNCHANGED <<appMiddlewares, routes, reg, panicked, serving, resp, pin, pres>>

\* g.Group(prefix, mws...)
GroupGroup(g, prefix, mws) ==
    /\ Setup
    /\ Len(groups) < MaxGroups
    /\ groups[g].middlewares.len + Len(mws) <= MaxGroupMws
    /\ LET new == groupGroupMiddlewares(heap, groups[g].middlewares, mws)
           gs  == Append(groups, [prefix      |-> groups[g].prefix \o prefix,
                                  middlewares |-> new.slice,
                                  parent      |-> g,
                                  chain       |-> Append(groups[g].chain, prefix),
                                  given       |-> mws])
           gc  == Collect(gs, new.heap)
       IN  heap' = gc.heap /\ groups' = gc.groups
    /\ UNCHANGED <<appMiddlewares, routes, reg, panicked, serving, resp, pin, pres>>

\* g.Use(middleware)
GroupUse(g) ==
    /\ Setup
    /\ groups[g].middlewares.len < MaxGroupMws
    /\ LET r  == GoAppend(heap, groups[g].middlewares, <<"U", g>>)
           gc == Collect([groups EXCEPT ![g].middlewares = r.slice], r.heap)
       IN  heap' = gc.heap /\ groups' = gc.groups
    /\ UNCHANGED <<appMiddlewares, routes, reg, panicked, serving, resp, pin, pres>>

\* App.GET/POST/...(pattern, handler, mws...)
AppHandle(method, pattern, mws, max) ==
    /\ Setup
    /\ Len(routes) < max
    /\ LET handler == <<"h", Len(routes) + 1>>
       IN  /\ routes' = routerHandle(routes, method, pattern, handler, mws)
           /\ reg' = Append(reg, [via |-> "app", g |-> 0, chain |-> <<>>, q |-> pattern,
                                  inherited |-> <<>>, mws |-> mws,
                                  valid |-> isValidPattern(normalizedPattern(pattern))])
    /\ UNCHANGED <<appMiddlewares, groups, heap, panicked, serving, resp, pin, pres>>

\* g.GET/POST/...(pattern, handler, mws...), that is g.handle(method, ...)
GroupHandle(g, method, pattern, mws) ==
    /\ Setup
    /\ Len(routes) < MaxGroupRoutes
    /\ LET inherited   == GroupMws(groups, heap, g)
           all         == groupHandleMiddlewares(inherited, mws)
           fullPattern == groups[g].prefix \o pattern
           handler     == <<"h", Len(routes) + 1>>
       IN  /\ IF all.panics
              THEN /\ panicked' = [op |-> "Group.handle", g |-> g, pattern |-> pattern,
                                   inherited |-> inherited, mws |-> mws]
                   /\ UNCHANGED <<routes, reg>>
              ELSE /\ routes' = routerHandle(routes, method, fullPattern, handler, all.list)
                   /\ reg' = Append(reg, [via |-> "group", g |-> g,
                                          chain |-> groups[g].chain, q |-> pattern,
                                          inherited |-> inherited, mws |-> mws,
                                          valid |-> isValidPattern(normalizedPattern(fullPattern))])
                   /\ UNCHANGED panicked
    /\ UNCHANGED <<appMiddlewares, groups, heap, serving, resp, pin, pres>>

\* App.ListenAndServe: the handler is installed, requests are served from now on
ListenAndServe ==
    /\ Setup
    /\ serving' = TRUE
    /\ UNCHANGED <<appMiddlewares, routes, reg, groups, heap, panicked, resp, pin, pres>>

\* one request through the handler of App.buildHandler
Serve(method, path) ==
    /\ serving
    /\ resp' = buildHandler(appMiddlewares, routes, method, path)
    /\ UNCHANGED <<appMiddlewares, routes, reg, groups, heap, panicked, serving, pin, pres>>

\* A plausible slip: recovering a panic resets the route table.
ServeFaultyForgetting(method, path, script, faultAt) ==
    /\ serving
    /\ resp' = buildHandlerFaulty(appMiddlewares, routes, method, path, script, faultAt)
    /\ faultAt <= Len(resp'.trace)
    /\ routes' = IF resp'.panics THEN <<>> ELSE routes
    /\ UNCHANGED <<appMiddlewares, reg, groups, heap, panicked, serving, pin, pres>>

\* one request through the handler of App.buildHandler, with a handler that
\* follows script and a chain that panics at faultAt
ServeFaulty(method, path, script, faultAt) ==
    /\ serving
    /\ resp' = buildHandlerFaulty(appMiddlewares, routes, method, path, script, faultAt)
    /\ faultAt <= Len(resp'.trace)
    /\ UNCHANGED <<appMiddlewares, routes, reg, groups, heap, panicked, serving, pin, pres>>

InitApp ==
    /\ appMiddlewares = <<>>
    /\ routes = <<>>
    /\ reg = <<>>
    /\ groups = <<>>
    /\ heap = <<>>
    /\ panicked = NoPanic
    /\ serving = FALSE
    /\ resp = None

-----------------------------------------------------------------------------
(* WebSocket manager, hubs and connections *)

HubNames == {"general"}
Senders == 1..MaxSenders

NoMessage == <<"none", 0>>

\* A panic in the hub's own goroutine is recovered nowhere: the process dies.
Crashed == \E p \in wsPanics : p.by = "run"
Live == ~Crashed

Panic(by, what) == [by |-> by, what |-> what]

\* the WebSocketHub value RegisterHub builds; its loop starts blocked in select
newHub(name) ==
    [name |-> name, connections |-> {}, pc |-> "select", cur |-> 0,
     message |-> NoMessage, pending |-> {}, cancelled |-> FALSE]

\* WebSocketManager.RegisterHub, under wm.mu: a new hub is built, stored under
\* name whatever was stored there, and its loop is started
RegisterHub(hs, wm, name) ==
    [hubs |-> Append(hs, newHub(name)), wm |-> [wm EXCEPT ![name] = Len(hs) + 1]]

\* WebSocketManager.GetHub, under wm.mu
GetHub(wm, name) == [hub |-> wm[name], ok |-> wm[name] # 0]

\* the Upgrade and Connection headers of a request, each a list of tokens:
\* what a client sending "Connection: Upgrade" and one sending
\* "Connection: keep-alive, Upgrade" put in their opening handshake
UpgradeHeader == [upgrade |-> <<"websocket">>, connection |-> <<"Upgrade">>]

KeepAliveUpgradeHeader ==
    [upgrade |-> <<"websocket">>, connection |-> <<"keep-alive", "Upgrade">>]

Headers == { UpgradeHeader, KeepAliveUpgradeHeader }

\* buildHandler: "isWebSocket := a.wsManager != nil &&
\* req.Header.Get("Upgrade") == "websocket" && req.Header.Get("Connection") == "Upgrade"":
\* each header compared as a whole with one token
isWebSocket(wm, hdr) ==
    wm /\ hdr.upgrade = <<"websocket">> /\ hdr.connection = <<"Upgrade">>

\* the upgrader's test of a handshake header: the token is one of the list
tokenListContainsValue(value, token) == \E k \in 1..Len(value) : value[k] = token

\* the handshake the upgrader accepts
validHandshake(hdr) ==
    /\ tokenListContainsValue(hdr.connection, "Upgrade")
    /\ tokenListContainsValue(hdr.upgrade, "websocket")

\* buildHandler: the scope of the request is the request's own context for a
\* WebSocket request, and a context with the app-wide deadline otherwise
requestScope(wm, hdr) == IF isWebSocket(wm, hdr) THEN "request" ELSE "timeout"

\* the state of one Upgrade call after its GetHub
newUpgrade(name, got, hdr, scope) ==
    [name |-> name, hub |-> got.hub, hdr |-> hdr, scope |-> scope, ctxDone |-> FALSE,
     pc |-> IF got.ok THEN "handshake" ELSE "registerhub",
     stream |-> "none", closes |-> 0,
     queue |-> <<>>, chClosed |-> FALSE, closed |-> FALSE,
     wp |-> "none", enq |-> <<>>, out |-> <<>>, closeCalls |-> "never",
     handled |-> <<>>]

\* the handler chain of the request has returned: Upgrade is over
Returned(c) == conns[c].pc \in {"done", "timeout", "failed", "panicked"}

\* c.ctx.Done() is closed: the deadline of the request's scope has passed, or
\* the handler chain has returned ("defer cancel()", and the server's own
\* cancellation of the request's context)
CtxDone(c) == conns[c].ctxDone \/ Returned(c)

\* (variant: the payload is put at the head of the queue)
enqueueFront(cs, c, message) ==
    [cs EXCEPT ![c].queue = <<message>> \o @,
               ![c].enq = IF message[1] = "b" THEN Append(@, message) ELSE @]

\* "case conn.send <- message" succeeding: the payload joins the queue (enq is
\* history: the broadcast payloads ever enqueued on the connection)
enqueue(cs, c, message) ==
    [cs EXCEPT ![c].queue = Append(@, message),
               ![c].enq = IF message[1] = "b" THEN Append(@, message) ELSE @]

\* conn.Close() of the underlying stream
closeStream(cs, c) == [cs EXCEPT ![c].stream = "closed", ![c].closes = @ + 1]

\* h.mu can be write-locked: no SendToConnection holds its read lock
HubLockFree(h) == \A t \in Senders : sends[t].pc = "idle" \/ sends[t].hub # h

\* c.mu can be write-locked: no Send holds its read lock
ConnLockFree(c) == \A t \in Senders : sends[t].pc = "idle" \/ sends[t].conn # c

IdleSend == [pc |-> "idle", conn |-> 0, hub |-> 0]

\* history: Close was never called on a connection, once, or again
Again(calls) == IF calls = "never" THEN "once" ELSE "again"

(* App and manager *)

\* App.WithWebSocket
WithWebSocket ==
    /\ Setup
    /\ ~wsManager
    /\ wsManager' = TRUE
    /\ wmHubs' = [n \in HubNames |-> 0]
    /\ UNCHANGED <<hubs, conns, sends, bcasts, wsPanics>>
    /\ UNCHANGED <<appVars, patVars, cfgVars, wsCalls>>

\* App.WebSocket(path, hubName, handler, mws...)
AppWebSocket(path, name, mws) ==
    /\ Setup
    /\ Len(routes) < MaxRoutes
    /\ IF wsManager
       THEN LET r == RegisterHub(hubs, wmHubs, name)
            IN  hubs' = r.hubs /\ wmHubs' = r.wm
       ELSE UNCHANGED <<hubs, wmHubs>>
    /\ routes' = routerHandle(routes, "GET", path, <<"ws", Len(routes) + 1>>, mws)
    /\ reg' = Append(reg, [via |-> "ws", g |-> 0, chain |-> <<>>, q |-> path,
                           inherited |-> <<>>, mws |-> mws,
                           valid |-> isValidPattern(normalizedPattern(path)),
                           hub |-> name])
    /\ UNCHANGED <<wsManager, conns, sends, bcasts, wsPanics>>
    /\ UNCHANGED <<appMiddlewares, groups, heap, panicked, serving, resp, pin, pres, wsCalls, cfgVars>>

\* (variant: the hub is cancelled and stays in the manager's map)
removeHubKeeping(hs, wm, name) ==
    IF wm[name] # 0
    THEN [hubs |-> [hs EXCEPT ![wm[name]].cancelled = TRUE], wm |-> wm]
    ELSE [hubs |-> hs, wm |-> wm]

\* WebSocketManager.RemoveHub, under wm.mu:
\* "if hub, ok := wm.hubs[name]; ok { hub.cancel(); delete(wm.hubs, name) }"
removeHub(hs, wm, name) ==
    IF wm[name] # 0
    THEN [hubs |-> [hs EXCEPT ![wm[name]].cancelled = TRUE],
          wm |-> [wm EXCEPT ![name] = 0]]
    ELSE [hubs |-> hs, wm |-> wm]

\* WebSocketManager.RemoveHub(name)
RemoveHub(name, max) ==
    /\ Live
    /\ wsCalls < max
    /\ wsCalls' = wsCalls + 1
    /\ wsManager
    /\ hubs' = removeHub(hubs, wmHubs, name).hubs
    /\ wmHubs' = removeHub(hubs, wmHubs, name).wm
    /\ UNCHANGED <<wsManager, conns, sends, bcasts, wsPanics>>
    /\ UNCHANGED <<appVars, patVars, cfgVars>>

\* App.Shutdown(ctx): "return a.server.Shutdown(ctx)".  The server stops
\* accepting, closes its idle connections and waits for its active ones until
\* ctx ends; a connection a handler has hijacked for a WebSocket is no longer
\* the server's, so neither it nor the hubs are touched.
Shutdown ==
    /\ Live
    /\ serving
    /\ ~shutdown
    /\ shutdown' = TRUE
    /\ UNCHANGED <<wsManager, wmHubs, hubs, conns, sends, bcasts, wsPanics, wsCalls, sendCap>>
    /\ UNCHANGED <<appVars, patVars>>

(* WebSocketManager.Upgrade *)

\* a request reaches the handler of a WebSocket route: Upgrade starts with GetHub
UpgradeStart(name, hdr, max) ==
    /\ Live
    /\ ~shutdown
    /\ wsCalls < max
    /\ wsCalls' = wsCalls + 1
    /\ serving
    /\ wsManager
    /\ \E i \in 1..Len(reg) : reg[i].via = "ws" /\ reg[i].hub = name
    /\ conns' = Append(conns, newUpgrade(name, GetHub(wmHubs, name), hdr,
                                         requestScope(wsManager, hdr)))
    /\ UNCHANGED <<wsManager, wmHubs, hubs, sends, bcasts, wsPanics>>
    /\ UNCHANGED <<appVars, patVars, cfgVars>>

\* "if !ok { hub = wm.RegisterHub(hubName) }"
UpgradeRegisterHub(c) ==
    /\ Live
    /\ conns[c].pc = "registerhub"
    /\ LET r == RegisterHub(hubs, wmHubs, conns[c].name)
       IN  /\ hubs' = r.hubs
           /\ wmHubs' = r.wm
           /\ conns' = [conns EXCEPT ![c].hub = Len(r.hubs), ![c].pc = "handshake"]
    /\ UNCHANGED <<wsManager, sends, bcasts, wsPanics>>
    /\ UNCHANGED <<appVars, patVars, cfgVars, wsCalls>>

\* wm.upgrader.Upgrade: the handshake succeeds and the connection is built, or
\* it fails and Upgrade returns the error
UpgradeHandshake(c, ok, max) ==
    /\ Live
    /\ conns[c].pc = "handshake"
    /\ ok => validHandshake(conns[c].hdr)
    /\ ~ok => wsCalls < max
    /\ wsCalls' = IF ok THEN wsCalls ELSE wsCalls + 1
    /\ conns' = IF ok
                THEN [conns EXCEPT ![c].stream = "open", ![c].pc = "register"]
                ELSE [conns EXCEPT ![c].pc = "failed"]
    /\ UNCHANGED <<wsManager, wmHubs, hubs, sends, bcasts, wsPanics>>
    /\ UNCHANGED <<appVars, patVars, cfgVars>>

\* A plausible slip: the timeout branch returns the error and leaves the stream open.
upgradeTimeoutLeak(cs, c) == [cs EXCEPT ![c].pc = "timeout"]

\* "case <-time.After(wm.config.RegisterTimeout): conn.Close(); return err"
upgradeTimeout(cs, c) == [closeStream(cs, c) EXCEPT ![c].pc = "timeout"]

\* the registration timer fires while Upgrade waits on hub.register
UpgradeTimeout(c, max) ==
    /\ Live
    /\ wsCalls < max
    /\ wsCalls' = wsCalls + 1
    /\ conns[c].pc = "register"
    /\ conns' = upgradeTimeout(conns, c)
    /\ UNCHANGED <<wsManager, wmHubs, hubs, sends, bcasts, wsPanics>>
    /\ UNCHANGED <<appVars, patVars, cfgVars>>

\* the deadline of the request's scope passes while its handler chain, that
\* is Upgrade, is still running
RequestTimeout(c, max) ==
    /\ Live
    /\ wsCalls < max
    /\ wsCalls' = wsCalls + 1
    /\ conns[c].scope = "timeout"
    /\ ~CtxDone(c)
    /\ conns' = [conns EXCEPT ![c].ctxDone = TRUE]
    /\ UNCHANGED <<wsManager, wmHubs, hubs, sends, bcasts, wsPanics>>
    /\ UNCHANGED <<appVars, patVars, cfgVars>>

\* "case hub.register <- wsConn" on a channel the stopped loop has closed
UpgradeRegisterClosed(c) ==
    /\ Live
    /\ conns[c].pc = "register"
    /\ hubs[conns[c].hub].pc = "stopped"
    /\ conns' = [conns EXCEPT ![c].pc = "panicked"]
    /\ wsPanics' = wsPanics \cup {Panic("upgrade", "send on closed channel")}
    /\ UNCHANGED <<wsManager, wmHubs, hubs, sends, bcasts>>
    /\ UNCHANGED <<appVars, patVars, cfgVars, wsCalls>>

(* WebSocketHub.run *)

\* "case conn := <-h.register": the loop takes the connection Upgrade offers;
\* Upgrade goes on to start the write pump and to run the read pump
HubRecvRegister(h, c) ==
    /\ Live
    /\ hubs[h].pc = "select"
    /\ conns[c].pc = "register" /\ conns[c].hub = h
    /\ hubs' = [hubs EXCEPT ![h].pc = "register", ![h].cur = c]
    /\ conns' = [conns EXCEPT ![c].pc = "reading", ![c].wp = "running"]
    /\ UNCHANGED <<wsManager, wmHubs, sends, bcasts, wsPanics>>
    /\ UNCHANGED <<appVars, patVars, cfgVars, wsCalls>>

\* "h.mu.Lock(); h.connections[conn.id] = conn; h.mu.Unlock()"
HubRegister(h) ==
    /\ Live
    /\ hubs[h].pc = "register"
    /\ HubLockFree(h)
    /\ hubs' = [hubs EXCEPT ![h].connections = @ \cup {hubs[h].cur},
                            ![h].pc = "select", ![h].cur = 0]
    /\ UNCHANGED <<wsManager, wmHubs, conns, sends, bcasts, wsPanics>>
    /\ UNCHANGED <<appVars, patVars, cfgVars, wsCalls>>

\* "case conn := <-h.unregister": the loop takes the request of a read pump,
\* which goes on to close the stream and return
HubRecvUnregister(h, c) ==
    /\ Live
    /\ hubs[h].pc = "select"
    /\ conns[c].pc = "unregister" /\ conns[c].hub = h
    /\ hubs' = [hubs EXCEPT ![h].pc = "unregister", ![h].cur = c]
    /\ conns' = [closeStream(conns, c) EXCEPT ![c].pc = "done"]
    /\ UNCHANGED <<wsManager, wmHubs, sends, bcasts, wsPanics>>
    /\ UNCHANGED <<appVars, patVars, cfgVars, wsCalls>>

\* "if _, ok := h.connections[conn.id]; ok { delete(...); close(conn.send) }"
HubUnregister(h) ==
    LET c == hubs[h].cur
    IN
    /\ Live
    /\ hubs[h].pc = "unregister"
    /\ HubLockFree(h)
    /\ IF c \notin hubs[h].connections
       THEN /\ hubs' = [hubs EXCEPT ![h].pc = "select", ![h].cur = 0]
            /\ UNCHANGED <<conns, wsPanics>>
       ELSE IF conns[c].chClosed
       THEN /\ hubs' = [hubs EXCEPT ![h].connections = @ \ {c}]
            /\ wsPanics' = wsPanics \cup {Panic("run", "close of closed channel")}
            /\ UNCHANGED conns
       ELSE /\ hubs' = [hubs EXCEPT ![h].connections = @ \ {c},
                                    ![h].pc = "select", ![h].cur = 0]
            /\ conns' = [conns EXCEPT ![c].chClosed = TRUE]
            /\ UNCHANGED wsPanics
    /\ UNCHANGED <<wsManager, wmHubs, sends, bcasts>>
    /\ UNCHANGED <<appVars, patVars, cfgVars, wsCalls>>

\* one iteration of "for _, conn := range h.connections" in the broadcast case
HubBroadcastStep(h, c) ==
    /\ Live
    /\ hubs[h].pc = "broadcast"
    /\ c \in hubs[h].pending
    /\ IF conns[c].chClosed
       THEN /\ wsPanics' = wsPanics \cup {Panic("run", "send on closed channel")}
            /\ UNCHANGED <<hubs, conns>>
       ELSE IF Len(conns[c].queue) < sendCap
       THEN /\ conns' = enqueue(conns, c, hubs[h].message)
            /\ hubs' = [hubs EXCEPT ![h].pending = @ \ {c}]
            /\ UNCHANGED wsPanics
       ELSE /\ conns' = [conns EXCEPT ![c].chClosed = TRUE]
            /\ hubs' = [hubs EXCEPT ![h].pending = @ \ {c},
                                    ![h].connections = @ \ {c}]
            /\ UNCHANGED wsPanics
    /\ UNCHANGED <<wsManager, wmHubs, sends, bcasts>>
    /\ UNCHANGED <<appVars, patVars, cfgVars, wsCalls>>

\* the range loop is over: "h.mu.RUnlock()" and back to select
HubBroadcastDone(h) ==
    /\ Live
    /\ hubs[h].pc = "broadcast"
    /\ hubs[h].pending = {}
    /\ hubs' = [hubs EXCEPT ![h].pc = "select", ![h].message = NoMessage]
    /\ UNCHANGED <<wsManager, wmHubs, conns, sends, bcasts, wsPanics>>
    /\ UNCHANGED <<appVars, patVars, cfgVars, wsCalls>>

\* "case <-h.ctx.Done(): return", and the deferred close of the three channels
HubStop(h) ==
    /\ Live
    /\ hubs[h].pc = "select"
    /\ hubs[h].cancelled
    /\ hubs' = [hubs EXCEPT ![h].pc = "stopped"]
    /\ UNCHANGED <<wsManager, wmHubs, conns, sends, bcasts, wsPanics>>
    /\ UNCHANGED <<appVars, patVars, cfgVars, wsCalls>>

(* WebSocketHub.Broadcast *)

\* application code holds a hub through App.GetWebSocketHub, or through the
\* WSContext of a connection whose read pump has dispatched a message
HubHeld(h) ==
    \/ \E name \in HubNames : wsManager /\ wmHubs[name] = h
    \/ \E c \in 1..Len(conns) :
          conns[c].hub = h /\ conns[c].pc \in {"reading", "unregister", "done", "panicked"}


\* Hub.Broadcast(message): a non-blocking send on the unbuffered broadcast
\* channel, received only by a loop that is blocked in its select
Broadcast(h, max) ==
    LET id == Len(bcasts) + 1
        call == [hub |-> h, accepted |-> FALSE, registered |-> hubs[h].connections,
                 free |-> {c \in hubs[h].connections :
                              ~conns[c].chClosed /\ Len(conns[c].queue) < sendCap}]
    IN
    /\ Live
    /\ wsCalls < max
    /\ wsCalls' = wsCalls + 1
    /\ HubHeld(h)
    /\ IF hubs[h].pc = "stopped"
       THEN /\ wsPanics' = wsPanics \cup {Panic("broadcast", "send on closed channel")}
            /\ bcasts' = Append(bcasts, [call EXCEPT !.accepted = FALSE])
            /\ UNCHANGED hubs
       ELSE IF hubs[h].pc = "select"
       THEN /\ hubs' = [hubs EXCEPT ![h].pc = "broadcast",
                                    ![h].message = <<"b", id>>,
                                    ![h].pending = hubs[h].connections]
            /\ bcasts' = Append(bcasts, [call EXCEPT !.accepted = TRUE])
            /\ UNCHANGED wsPanics
       ELSE /\ bcasts' = Append(bcasts, [call EXCEPT !.accepted = FALSE])
            /\ UNCHANGED <<hubs, wsPanics>>
    /\ UNCHANGED <<wsManager, wmHubs, conns, sends>>
    /\ UNCHANGED <<appVars, patVars, cfgVars>>

(* Connection pumps *)

\* readPump: ReadMessage returns an error (the peer left, or the stream was
\* closed); the deferred function then offers the connection on hub.unregister
ReadError(c, max) ==
    /\ Live
    /\ wsCalls < max
    /\ wsCalls' = wsCalls + 1
    /\ conns[c].pc = "reading"
    /\ conns' = [conns EXCEPT ![c].pc = "unregister"]
    /\ UNCHANGED <<wsManager, wmHubs, hubs, sends, bcasts, wsPanics>>
    /\ UNCHANGED <<appVars, patVars, cfgVars>>

\* what a user message handler does with one message: it returns or panics
Outcomes == {"returned", "panicked"}

\* (variant: the handler is called by the read pump itself, without recover:
\* its panic unwinds the pump)
dispatchInline(cs, c, outcome) ==
    [cs EXCEPT ![c].handled = Append(@, outcome),
               ![c].pc = IF outcome = "panicked" THEN "unregister" ELSE @]

\* readPump: "go func() { defer func() { recover() ... }(); handler(wsContext) }()":
\* the handler runs as a task of its own, whose deferred function recovers
\* its panic (handled is history: the outcomes of the handlers dispatched)
dispatch(cs, c, outcome) == [cs EXCEPT ![c].handled = Append(@, outcome)]

\* readPump: ReadMessage returns a message of the peer and the handler is
\* dispatched on it; the loop goes back to its select
ReadMessage(c, outcome, max) ==
    /\ Live
    /\ wsCalls < max
    /\ wsCalls' = wsCalls + 1
    /\ conns[c].pc = "reading"
    /\ conns[c].stream = "open"
    /\ conns' = dispatch(conns, c, outcome)
    /\ UNCHANGED <<wsManager, wmHubs, hubs, sends, bcasts, wsPanics>>
    /\ UNCHANGED <<appVars, patVars, cfgVars>>

\* readPump: "case <-c.ctx.Done(): return", taken when the loop comes back
\* to its select after the scope was cancelled
ReadPumpCancelled(c) ==
    /\ Live
    /\ conns[c].pc = "reading"
    /\ CtxDone(c)
    /\ conns' = [conns EXCEPT ![c].pc = "unregister"]
    /\ UNCHANGED <<wsManager, wmHubs, hubs, sends, bcasts, wsPanics>>
    /\ UNCHANGED <<appVars, patVars, cfgVars, wsCalls>>

\* readPump: ReadMessage fails because the stream was closed on this side
ReadClosed(c) ==
    /\ Live
    /\ conns[c].pc = "reading"
    /\ conns[c].stream = "closed"
    /\ conns' = [conns EXCEPT ![c].pc = "unregister"]
    /\ UNCHANGED <<wsManager, wmHubs, hubs, sends, bcasts, wsPanics>>
    /\ UNCHANGED <<appVars, patVars, cfgVars, wsCalls>>

\* "c.hub.unregister <- c" on a channel the stopped loop has closed
UnregisterClosed(c) ==
    /\ Live
    /\ conns[c].pc = "unregister"
    /\ hubs[conns[c].hub].pc = "stopped"
    /\ conns' = [conns EXCEPT ![c].pc = "panicked"]
    /\ wsPanics' = wsPanics \cup {Panic("readPump", "send on closed channel")}
    /\ UNCHANGED <<wsManager, wmHubs, hubs, sends, bcasts>>
    /\ UNCHANGED <<appVars, patVars, cfgVars, wsCalls>>

\* writePump: "case message, ok := <-c.send" with a queued payload; a write on
\* a closed stream fails and the pump returns
WritePumpWrite(c) ==
    /\ Live
    /\ conns[c].wp = "running"
    /\ conns[c].queue # <<>>
    /\ conns' = IF conns[c].stream = "closed"
                THEN [closeStream(conns, c) EXCEPT ![c].queue = Tail(@), ![c].wp = "done"]
                ELSE [conns EXCEPT ![c].queue = Tail(@),
                                   ![c].out = IF Head(conns[c].queue)[1] = "b"
                                              THEN Append(@, Head(conns[c].queue))
                                              ELSE @]
    /\ UNCHANGED <<wsManager, wmHubs, hubs, sends, bcasts, wsPanics>>
    /\ UNCHANGED <<appVars, patVars, cfgVars, wsCalls>>

\* writePump: "if !ok": the queue is closed and drained; or the ping on a
\* closed stream fails.  The pump returns and closes the stream.
WritePumpExit(c) ==
    /\ Live
    /\ conns[c].wp = "running"
    /\ conns[c].queue = <<>>
    /\ conns[c].chClosed \/ conns[c].stream = "closed"
    /\ conns' = [closeStream(conns, c) EXCEPT ![c].wp = "done"]
    /\ UNCHANGED <<wsManager, wmHubs, hubs, sends, bcasts, wsPanics>>
    /\ UNCHANGED <<appVars, patVars, cfgVars, wsCalls>>

\* (variant: the pump returns and leaves the stream open)
WritePumpCancelledLeavingStream(c) ==
    /\ Live
    /\ conns[c].wp = "running"
    /\ CtxDone(c)
    /\ conns' = [conns EXCEPT ![c].wp = "done"]
    /\ UNCHANGED <<wsManager, wmHubs, hubs, sends, bcasts, wsPanics>>
    /\ UNCHANGED <<appVars, patVars, cfgVars, wsCalls>>

\* writePump: "case <-c.ctx.Done(): return", and the deferred close
WritePumpCancelled(c) ==
    /\ Live
    /\ conns[c].wp = "running"
    /\ CtxDone(c)
    /\ conns' = [closeStream(conns, c) EXCEPT ![c].wp = "done"]
    /\ UNCHANGED <<wsManager, wmHubs, hubs, sends, bcasts, wsPanics>>
    /\ UNCHANGED <<appVars, patVars, cfgVars, wsCalls>>

(* WebSocketConnection.Send and Close *)

\* A plausible slip: the default branch of Send also deletes the connection
\* from its hub's map.
connectionSendDefaultDeleting(hs, cs, c) ==
    [hubs  |-> [hs EXCEPT ![cs[c].hub].connections = @ \ {c}],
     conns |-> [cs EXCEPT ![c].chClosed = TRUE]]

\* the default branch of Send: "close(c.send)"
connectionSendDefault(hs, cs, c) ==
    [hubs |-> hs, conns |-> [cs EXCEPT ![c].chClosed = TRUE]]

\* Connection.Send up to its select, by task t; h is the hub whose read lock
\* the caller holds (SendToConnection), or 0
SendBody(t, c, h, max) ==
    /\ Live
    /\ wsCalls < max
    /\ wsCalls' = wsCalls + 1
    /\ sends[t].pc = "idle"
    /\ conns[c].pc \in {"reading", "unregister", "done", "panicked"}
    /\ IF conns[c].closed
       THEN /\ UNCHANGED <<conns, sends, wsPanics>>
       ELSE IF conns[c].chClosed
       THEN /\ wsPanics' = wsPanics \cup {Panic("send", "send on closed channel")}
            /\ UNCHANGED <<conns, sends>>
       ELSE IF Len(conns[c].queue) < sendCap
       THEN /\ conns' = enqueue(conns, c, <<"s", 0>>)
            /\ UNCHANGED <<sends, wsPanics>>
       ELSE /\ sends' = [sends EXCEPT ![t] = [pc |-> "close", conn |-> c, hub |-> h]]
            /\ UNCHANGED <<conns, wsPanics>>
    /\ UNCHANGED <<wsManager, wmHubs, hubs, bcasts>>
    /\ UNCHANGED <<appVars, patVars, cfgVars>>

\* Connection.Send(message), called by a message handler through its WSContext
Send(t, c, max) == SendBody(t, c, 0, max)

\* Hub.SendToConnection(connId, message) for a connection found in the map
SendToConnection(t, h, c, max) ==
    /\ c \in hubs[h].connections
    /\ SendBody(t, c, h, max)

\* Hub.GetConnectionCount(), by task t: "h.mu.RLock()"
GetConnectionCount(t, h, max) ==
    /\ Live
    /\ wsCalls < max
    /\ wsCalls' = wsCalls + 1
    /\ sends[t].pc = "idle"
    /\ HubHeld(h)
    /\ sends' = [sends EXCEPT ![t] = [pc |-> "count", conn |-> 0, hub |-> h]]
    /\ UNCHANGED <<wsManager, wmHubs, hubs, conns, bcasts, wsPanics>>
    /\ UNCHANGED <<appVars, patVars, cfgVars>>

\* GetConnectionCount: "return len(h.connections)" and the deferred RUnlock
GetConnectionCountReturn(t) ==
    /\ Live
    /\ sends[t].pc = "count"
    /\ sends' = [sends EXCEPT ![t] = IdleSend]
    /\ UNCHANGED <<wsManager, wmHubs, hubs, conns, bcasts, wsPanics>>
    /\ UNCHANGED <<appVars, patVars, cfgVars, wsCalls>>

\* Send, default branch: "close(c.send)"
SendClose(t) ==
    LET c == sends[t].conn
    IN
    /\ Live
    /\ sends[t].pc = "close"
    /\ IF conns[c].chClosed
       THEN /\ wsPanics' = wsPanics \cup {Panic("send", "close of closed channel")}
            /\ sends' = [sends EXCEPT ![t] = IdleSend]
            /\ UNCHANGED <<hubs, conns>>
       ELSE /\ LET st == connectionSendDefault(hubs, conns, c)
               IN  hubs' = st.hubs /\ conns' = st.conns
            /\ sends' = [sends EXCEPT ![t].pc = "mark"]
            /\ UNCHANGED wsPanics
    /\ UNCHANGED <<wsManager, wmHubs, bcasts>>
    /\ UNCHANGED <<appVars, patVars, cfgVars, wsCalls>>

\* Send, default branch: "c.closed = true", and the return
SendMark(t) ==
    LET c == sends[t].conn
    IN
    /\ Live
    /\ sends[t].pc = "mark"
    /\ conns' = [conns EXCEPT ![c].closed = TRUE]
    /\ sends' = [sends EXCEPT ![t] = IdleSend]
    /\ UNCHANGED <<wsManager, wmHubs, hubs, bcasts, wsPanics>>
    /\ UNCHANGED <<appVars, patVars, cfgVars, wsCalls>>

\* Connection.Close().  Upgrade builds the connection without a cancel
\* function, so "c.cancel()" calls a nil function value: the call panics after
\* "c.closed = true", and the deferred Unlock runs.
Close(c, max) ==
    /\ Live
    /\ wsCalls < max
    /\ wsCalls' = wsCalls + 1
    /\ conns[c].stream # "none"
    /\ ConnLockFree(c)
    /\ IF ~conns[c].closed
       THEN /\ conns' = [conns EXCEPT ![c].closed = TRUE, ![c].closeCalls = Again(@)]
            /\ wsPanics' = wsPanics \cup {Panic("close", "nil function call")}
       ELSE /\ conns' = [conns EXCEPT ![c].closeCalls = Again(@)]
            /\ UNCHANGED wsPanics
    /\ UNCHANGED <<wsManager, wmHubs, hubs, sends, bcasts>>
    /\ UNCHANGED <<appVars, patVars, cfgVars>>

InitWs(cap) ==
    /\ sendCap = cap
    /\ shutdown = FALSE
    /\ wsManager = FALSE
    /\ wmHubs = [n \in HubNames |-> 0]
    /\ hubs = <<>>
    /\ conns = <<>>
    /\ sends = [t \in Senders |-> IdleSend]
    /\ bcasts = <<>>
    /\ wsPanics = {}
    /\ wsCalls = 0

-----------------------------------------------------------------------------
(* Group scenario: groups, middleware inheritance and the composed chain *)

GroupPrefixes == { <<"/", "a", "/">>, <<"b">> }
GroupPatterns == { <<"/", "c">>, <<"c", "*">>, <<"/">> }
GroupPaths    == { <<"/", "a", "/", "c">>, <<"/", "b", "/", "c">>, <<"/">> }

\* the middlewares a call passes: none, or one fresh marker
GroupArgs == { <<>>, << <<"C", Len(groups) + 1>> >> }
RouteArgs == { <<>>, << <<"D", Len(routes) + 1>> >> }

Init == InitApp /\ InitWs(MaxQueue) /\ pin = <<>> /\ pres = None

Next ==
    \/ (AppUse /\ UNCHANGED wsVars)
    \/ (\E prefix \in GroupPrefixes, mws \in GroupArgs : AppGroup(prefix, mws) /\ UNCHANGED wsVars)
    \/ (\E g \in 1..Len(groups), prefix \in GroupPrefixes, mws \in GroupArgs :
           GroupGroup(g, prefix, mws) /\ UNCHANGED wsVars)
    \/ (\E g \in 1..Len(groups) : GroupUse(g) /\ UNCHANGED wsVars)
    \/ (\E g \in 1..Len(groups), pattern \in GroupPatterns, mws \in RouteArgs :
           GroupHandle(g, "GET", pattern, mws) /\ UNCHANGED wsVars)
    \/ (ListenAndServe /\ UNCHANGED wsVars)
    \/ (\E path \in GroupPaths : Serve("GET", path) /\ UNCHANGED wsVars)

Spec == Init /\ [][Next]_vars

-----------------------------------------------------------------------------
(* Group-building scenario: only the calls that create and extend groups *)

NextGroups ==
    \/ (\E prefix \in GroupPrefixes, mws \in GroupArgs : AppGroup(prefix, mws) /\ UNCHANGED wsVars)
    \/ (\E g \in 1..Len(groups), prefix \in GroupPrefixes, mws \in GroupArgs :
           GroupGroup(g, prefix, mws) /\ UNCHANGED wsVars)
    \/ (\E g \in 1..Len(groups) : GroupUse(g) /\ UNCHANGED wsVars)

SpecGroups == Init /\ [][NextGroups]_vars

-----------------------------------------------------------------------------
(* Matcher scenario: routes registered on the App, requests dispatched *)

Methods == {"GET", "POST"}

MatchPatterns ==
    { <<"/", "u", "/", ":", "i">>,      \* /u/:i
      <<"/", "u", "/", "a">>,           \* /u/a
      <<"/", "f", "/", "*">>,           \* /f/*
      <<"/", ":", "v", "/", "*">>,      \* /:v/*
      <<"/", "*">>,                     \* /*
      <<"/", ":", "i", "/", ":", "i">>, \* /:i/:i
      <<"/", ":", "k", "/", "a">>,      \* /:k/a
      <<"/", "a", "*">> }               \* /a*  (invalid)

MatchPaths ==
    { <<"/", "u", "/", "a">>,
      <<"/", "u", "/", "4">>,
      <<"/", "u">>,
      <<"/", "u", "/", "4", "/", "x">>,
      <<"/", "f", "/", "a", "/", "b">>,
      <<"/", "f">>,
      <<"/", "/", "u", "/", "/", "4", "/">>,
      <<"/">> }

\* the middlewares a registration passes: /u/a may carry one of its own
MatchMws(pattern) == IF pattern = <<"/", "u", "/", "a">> THEN RouteArgs ELSE { <<>> }

NextMatch ==
    \/ (\E method \in Methods, pattern \in MatchPatterns :
           \E mws \in MatchMws(pattern) :
              AppHandle(method, pattern, mws, MaxRoutes) /\ UNCHANGED wsVars)
    \/ (ListenAndServe /\ UNCHANGED wsVars)
    \/ (\E method \in Methods, path \in MatchPaths : Serve(method, path) /\ UNCHANGED wsVars)

SpecMatch == Init /\ [][NextMatch]_vars

-----------------------------------------------------------------------------
(* Pattern harness: the pure functions applied to every short string *)

Alphabet == {"/", ":", "*", "a", "1", "."}

Strings == UNION {[1..n -> Alphabet] : n \in 0..MaxLen}

InitPat == InitApp /\ InitWs(MaxQueue) /\ pin \in Strings /\ pres = None

Normalize ==
    /\ pres = None
    /\ pres' = [op |-> "normalize", out |-> normalizedPattern(pin)]
    /\ UNCHANGED pin

NormalizeAgain ==
    /\ pres.op = "normalize"
    /\ pres' = [op |-> "normalize2", prev |-> pres.out,
                out |-> normalizedPattern(pres.out)]
    /\ UNCHANGED pin

Validate ==
    /\ pres = None
    /\ pres' = [op |-> "validate", ok |-> isValidPattern(pin)]
    /\ UNCHANGED pin

NextPat ==
    \/ (Normalize /\ UNCHANGED appVars /\ UNCHANGED wsVars)
    \/ (NormalizeAgain /\ UNCHANGED appVars /\ UNCHANGED wsVars)
    \/ (Validate /\ UNCHANGED appVars /\ UNCHANGED wsVars)

SpecPattern == InitPat /\ [][NextPat]_vars

-----------------------------------------------------------------------------
(* Panic scenario: handlers and middlewares that panic while serving *)

StatusCreated == 201

PanicPatterns == { <<"/", "u", "/", "a">>, <<"/", "u", "/", ":", "i">> }
PanicPaths    == { <<"/", "u", "/", "a">>, <<"/", "x">> }

\* what the route handler does: nothing, a status, a body, each with or without
\* a panic after it; a status after a status, a status after a body
Scripts ==
    { <<>>,
      << <<"panic", 0>> >>,
      << <<"WriteHeader", StatusCreated>> >>,
      << <<"WriteHeader", StatusCreated>>, <<"panic", 0>> >>,
      << <<"Write", 0>>, <<"panic", 0>> >>,
      << <<"WriteHeader", StatusCreated>>, <<"WriteHeader", StatusNotFound>> >>,
      << <<"Write", 0>>, <<"WriteHeader", StatusCreated>> >> }

\* the longest chain: recovery, logger, the global and the route middlewares,
\* each entered and left, around one handler
MaxTrace == 2 * (2 + MaxAppUse + 1) + 1

\* the path of the WebSocket route
WsPath == <<"/", "w">>

NextPanic ==
    \/ (AppUse /\ UNCHANGED wsVars)
    \/ (\E pattern \in PanicPatterns, mws \in RouteArgs :
           AppHandle("GET", pattern, mws, MaxGroupRoutes) /\ UNCHANGED wsVars)
    \/ (ListenAndServe /\ UNCHANGED wsVars)
    \/ (\E path \in PanicPaths, script \in Scripts, faultAt \in 0..MaxTrace :
           ServeFaulty("GET", path, script, faultAt) /\ UNCHANGED wsVars)

SpecPanic == Init /\ [][NextPanic]_vars

-----------------------------------------------------------------------------
(* Recovery scenario: an application with a hub, global middlewares and routes,
   set up in that order, serving requests whose chain or handler may panic *)

RecoverScripts == { <<>>, << <<"panic", 0>> >> }

NextRecover ==
    \/ (routes = <<>> /\ appMiddlewares = <<>> /\ WithWebSocket)
    \/ (wsManager /\ routes = <<>> /\ appMiddlewares = <<>>
           /\ AppWebSocket(WsPath, "general", <<>>))
    \/ (Len(routes) <= 1 /\ AppUse /\ UNCHANGED wsVars)
    \/ (\E pattern \in PanicPatterns :
           AppHandle("GET", pattern, <<>>, MaxGroupRoutes + 1) /\ UNCHANGED wsVars)
    \/ (ListenAndServe /\ UNCHANGED wsVars)
    \/ (\E path \in PanicPaths, script \in RecoverScripts, faultAt \in 0..MaxTrace :
           ServeFaulty("GET", path, script, faultAt) /\ UNCHANGED wsVars)

SpecRecover == Init /\ [][NextRecover]_vars

-----------------------------------------------------------------------------
(* Hub scenario: WebSocket routes, upgrades, the hub loop, pumps and senders *)

HubIds == 1..Len(hubs)
ConnIds == 1..Len(conns)

\* the steps of the tasks the program starts itself
NextHubTasks ==
    \/ \E c \in ConnIds : UpgradeRegisterHub(c)
    \/ \E h \in HubIds, c \in ConnIds : HubRecvRegister(h, c)
    \/ \E h \in HubIds : HubRegister(h)
    \/ \E h \in HubIds, c \in ConnIds : HubRecvUnregister(h, c)
    \/ \E h \in HubIds : HubUnregister(h)
    \/ \E h \in HubIds, c \in ConnIds : HubBroadcastStep(h, c)
    \/ \E h \in HubIds : HubBroadcastDone(h)
    \/ \E c \in ConnIds : WritePumpWrite(c)
    \/ \E c \in ConnIds : WritePumpExit(c)
    \/ \E c \in ConnIds : WritePumpCancelled(c)
    \/ \E c \in ConnIds : ReadClosed(c)
    \/ \E t \in Senders : SendClose(t)
    \/ \E t \in Senders : SendMark(t)

NextHub ==
    \/ WithWebSocket
    \/ AppWebSocket(WsPath, "general", <<>>)
    \/ (ListenAndServe /\ UNCHANGED wsVars)
    \/ \E name \in HubNames : UpgradeStart(name, UpgradeHeader, MaxCalls)
    \/ \E h \in HubIds : Broadcast(h, MaxCalls)
    \/ \E t \in Senders, c \in ConnIds : Send(t, c, MaxCalls)
    \/ \E t \in Senders, h \in HubIds, c \in ConnIds : SendToConnection(t, h, c, MaxCalls)
    \/ \E t \in Senders, h \in HubIds : GetConnectionCount(t, h, MaxCalls)
    \/ \E t \in Senders : GetConnectionCountReturn(t)
    \/ \E c \in ConnIds : Close(c, MaxCalls)
    \/ \E c \in ConnIds, ok \in BOOLEAN : UpgradeHandshake(c, ok, MaxCalls)
    \/ \E c \in ConnIds : UpgradeTimeout(c, MaxCalls)
    \/ \E c \in ConnIds : ReadError(c, MaxCalls)
    \/ NextHubTasks

SpecHub == Init /\ [][NextHub]_vars

-----------------------------------------------------------------------------
(* Broadcast scenario: connections come and go while payloads are broadcast;
   every queue has room for one more payload than in the hub scenario, so
   that two payloads can wait in a queue together *)

InitOrder == InitApp /\ InitWs(MaxQueue + 1) /\ pin = <<>> /\ pres = None

NextOrder ==
    \/ WithWebSocket
    \/ AppWebSocket(WsPath, "general", <<>>)
    \/ (ListenAndServe /\ UNCHANGED wsVars)
    \/ \E name \in HubNames : UpgradeStart(name, UpgradeHeader, MaxOrderCalls)
    \/ \E h \in HubIds : Broadcast(h, MaxOrderCalls)
    \/ \E c \in ConnIds, ok \in BOOLEAN : UpgradeHandshake(c, ok, MaxOrderCalls)
    \/ \E c \in ConnIds : ReadError(c, MaxOrderCalls)
    \/ \E c \in ConnIds, outcome \in Outcomes : ReadMessage(c, outcome, MaxOrderCalls)
    \/ \E c \in ConnIds : UpgradeRegisterHub(c)
    \/ \E h \in HubIds, c \in ConnIds : HubRecvRegister(h, c)
    \/ \E h \in HubIds : HubRegister(h)
    \/ \E h \in HubIds, c \in ConnIds : HubRecvUnregister(h, c)
    \/ \E h \in HubIds : HubUnregister(h)
    \/ \E h \in HubIds, c \in ConnIds : HubBroadcastStep(h, c)
    \/ \E h \in HubIds : HubBroadcastDone(h)
    \/ \E c \in ConnIds : WritePumpWrite(c)
    \/ \E c \in ConnIds : WritePumpExit(c)
    \/ \E c \in ConnIds : WritePumpCancelled(c)

SpecOrder == InitOrder /\ [][NextOrder]_vars

-----------------------------------------------------------------------------
(* Operations scenario: every operation of the manager, the hubs and the
   connections, hub removal included, within a small budget of calls *)

NextOps ==
    \/ WithWebSocket
    \/ AppWebSocket(WsPath, "general", <<>>)
    \/ (ListenAndServe /\ UNCHANGED wsVars)
    \/ \E name \in HubNames : RemoveHub(name, MaxOpsCalls)
    \/ \E name \in HubNames : UpgradeStart(name, UpgradeHeader, MaxOpsCalls)
    \/ \E h \in HubIds : Broadcast(h, MaxOpsCalls)
    \/ \E t \in Senders, c \in ConnIds : Send(t, c, MaxOpsCalls)
    \/ \E t \in Senders, h \in HubIds, c \in ConnIds : SendToConnection(t, h, c, MaxOpsCalls)
    \/ \E c \in ConnIds : Close(c, MaxOpsCalls)
    \/ \E h \in HubIds : HubStop(h)
    \/ \E c \in ConnIds : UpgradeRegisterClosed(c)
    \/ \E c \in ConnIds : UnregisterClosed(c)
    \/ \E c \in ConnIds, ok \in BOOLEAN : UpgradeHandshake(c, ok, MaxOpsCalls)
    \/ \E c \in ConnIds : UpgradeTimeout(c, MaxOpsCalls)
    \/ \E c \in ConnIds : ReadError(c, MaxOpsCalls)
    \/ NextHubTasks

SpecOps == Init /\ [][NextOps]_vars

-----------------------------------------------------------------------------
(* Lifetime scenario: the operations scenario, with clients of both kinds of
   handshake, the deadline of a request's scope, and App.Shutdown *)

NextLife ==
    \/ NextOps
    \/ Shutdown
    \/ \E name \in HubNames : UpgradeStart(name, KeepAliveUpgradeHeader, MaxOpsCalls)
    \/ \E c \in ConnIds : RequestTimeout(c, MaxOpsCalls)
    \/ \E c \in ConnIds : ReadPumpCancelled(c)

SpecLife == Init /\ [][NextLife]_vars

-----------------------------------------------------------------------------
(* Cancellation scenario: connections of both kinds of handshake are
   established, receive broadcasts, lose their peer or see the deadline of
   their request's scope pass; the pumps are scheduled fairly *)

NextCancel ==
    \/ WithWebSocket
    \/ AppWebSocket(WsPath, "general", <<>>)
    \/ (ListenAndServe /\ UNCHANGED wsVars)
    \/ \E name \in HubNames, hdr \in Headers : UpgradeStart(name, hdr, MaxCancelCalls)
    \/ \E h \in HubIds : Broadcast(h, MaxCancelCalls)
    \/ \E c \in ConnIds, ok \in BOOLEAN : UpgradeHandshake(c, ok, MaxCancelCalls)
    \/ \E c \in ConnIds : RequestTimeout(c, MaxCancelCalls)
    \/ \E c \in ConnIds : ReadError(c, MaxCancelCalls)
    \/ \E c \in ConnIds : ReadPumpCancelled(c)
    \/ \E c \in ConnIds : ReadClosed(c)
    \/ \E c \in ConnIds : UpgradeRegisterHub(c)
    \/ \E h \in HubIds, c \in ConnIds : HubRecvRegister(h, c)
    \/ \E h \in HubIds : HubRegister(h)
    \/ \E h \in HubIds, c \in ConnIds : HubRecvUnregister(h, c)
    \/ \E h \in HubIds : HubUnregister(h)
    \/ \E h \in HubIds, c \in ConnIds : HubBroadcastStep(h, c)
    \/ \E h \in HubIds : HubBroadcastDone(h)
    \/ \E c \in ConnIds : WritePumpWrite(c)
    \/ \E c \in ConnIds : WritePumpExit(c)
    \/ \E c \in ConnIds : WritePumpCancelled(c)

\* the connections the scenario can make: each costs a call
CancelConns == 1..MaxCancelCalls

\* the pumps are goroutines of their own: a pump whose select has a ready
\* case, or whose read has failed, is eventually scheduled and takes it
FairPumps ==
    \A c \in CancelConns :
        /\ WF_vars(c \in ConnIds /\ WritePumpCancelled(c))
        /\ WF_vars(c \in ConnIds /\ ReadClosed(c))

SpecCancel == Init /\ [][NextCancel]_vars /\ FairPumps

-----------------------------------------------------------------------------
(* Vocabulary of the properties, stated without the matcher's code *)

IsParam(seg) == HasPrefix(seg, ":")

EndsInWildcard(pattern) ==
    LET P == splitPath(pattern) IN Len(P) > 0 /\ P[Len(P)] = <<"*">>

\* the request's segments
Segments(path) == splitPath(normalizedPattern(path))

\* the first n pattern segments agree with the request's: literals are equal
AgreeUpTo(P, R, n) == \A k \in 1..n : ~IsParam(P[k]) => P[k] = R[k]

ExactMatch(pattern, path) ==
    LET P == splitPath(pattern)
        R == Segments(path)
    IN  Len(P) = Len(R) /\ AgreeUpTo(P, R, Len(P))

WildcardMatch(pattern, path) ==
    LET P == splitPath(pattern)
        R == Segments(path)
    IN  Len(R) >= Len(P) - 1 /\ AgreeUpTo(P, R, Len(P) - 1)

\* the positions of the parameter segments among the first n pattern segments
ParamPositions(P, n) == {k \in 1..n : IsParam(P[k])}

\* what is left of the normalized request path after its first n segments and the
\* slash that follows them
RECURSIVE SegChars(_, _)
SegChars(R, n) == IF n = 0 THEN 0 ELSE 1 + Len(R[n]) + SegChars(R, n - 1)

RestOfPath(path, n) ==
    LET np == normalizedPattern(path)
    IN  SubSeq(np, SegChars(Segments(path), n) + 2, Len(np))

Served == resp # None

Winner == routes[resp.route]

Ins(ms) == [k \in 1..Len(ms) |-> <<"in", ms[k]>>]
Outs(ms) == [k \in 1..Len(ms) |-> <<"out", ms[Len(ms) + 1 - k]>>]

RECURSIVE Concat(_)
Concat(ss) == IF ss = <<>> THEN <<>> ELSE Head(ss) \o Concat(Tail(ss))

-----------------------------------------------------------------------------
(* C1 *)

\* C1: a request won by a route registered through a Group runs recovery, the
\* access log, the global middlewares in App.Use order, the group's inherited
\* middlewares, the route's own middlewares, then the handler, and leaves them in
\* the reverse order.
C1_MiddlewareOrder ==
    (Served /\ resp.route # 0 /\ reg[resp.route].via = "group") =>
        LET r     == reg[resp.route]
            chain == <<Recovery, Logger>> \o appMiddlewares \o r.inherited \o r.mws
        IN  resp.trace = Ins(chain) \o << <<"handler", Winner.handler>> >> \o Outs(chain)

-----------------------------------------------------------------------------
(* C2 *)

\* C2: every Group.METHOD call completes and appends one route whose pattern is
\* build(group.prefix, pattern) and whose middleware list is the group's inherited
\* list followed by the route's own middlewares.
C2_GroupHandleAppends ==
    /\ panicked = NoPanic
    /\ \A i \in 1..Len(routes) :
          reg[i].via = "group" =>
              /\ routes[i].pattern = buildPattern(groups[reg[i].g].prefix, reg[i].q)
              /\ routes[i].middlewares = reg[i].inherited \o reg[i].mws

-----------------------------------------------------------------------------
(* C3 *)

\* the routes of the request's method whose pattern the matcher accepts
Candidates ==
    {i \in 1..Len(routes) :
        routes[i].method = resp.method /\ matchRoute(routes[i].pattern, resp.path).matched}

\* C3: the table is in registration order and a request runs exactly the handler of
\* the first route, in that order, of its method whose pattern matches its path;
\* no later route is chosen, and at most one route handler runs.
C3_FirstMatchWins ==
    /\ \A i \in 1..Len(routes) : routes[i].handler = <<"h", i>>
    /\ Served =>
          /\ Len(resp.ran) <= 1
          /\ IF Candidates = {}
             THEN resp.route = 0 /\ resp.ran = <<>>
             ELSE /\ resp.route \in Candidates
                  /\ \A i \in Candidates : resp.route <= i
                  /\ resp.ran = << routes[resp.route].handler >>

\* GET /u/:i registered before GET /u/a; GET /u/a runs the first with i = "a"
C3_Witness ==
    /\ Served
    /\ Len(routes) = 2
    /\ routes[1].method = "GET" /\ routes[1].pattern = <<"/", "u", "/", ":", "i">>
    /\ routes[2].method = "GET" /\ routes[2].pattern = <<"/", "u", "/", "a">>
    /\ resp.method = "GET" /\ resp.path = <<"/", "u", "/", "a">>
    /\ resp.route = 1
    /\ resp.ran = << <<"h", 1>> >>
    /\ resp.params[<<"i">>] = <<"a">>

-----------------------------------------------------------------------------
(* C4 *)

\* the routes of the request's method without / with a final wildcard segment
ExactRoutes ==
    {i \in 1..Len(routes) :
        routes[i].method = resp.method /\ ~EndsInWildcard(routes[i].pattern)}

WildcardRoutes ==
    {i \in 1..Len(routes) :
        routes[i].method = resp.method /\ EndsInWildcard(routes[i].pattern)}

\* C4 as claimed: a route without final wildcard matches exactly when the segment
\* counts are equal and every literal segment equals the request's; the params of
\* a match bind each :name to the request segment at that position, nothing else.
C4_ExactMatchBindsEachPosition ==
    Served =>
        \A i \in ExactRoutes :
            LET P == splitPath(routes[i].pattern)
                R == Segments(resp.path)
            IN  /\ matchRoute(routes[i].pattern, resp.path).matched
                       <=> ExactMatch(routes[i].pattern, resp.path)
                /\ resp.route = i =>
                       /\ DOMAIN resp.params = {Tail(P[k]) : k \in ParamPositions(P, Len(P))}
                       /\ \A k \in ParamPositions(P, Len(P)) : resp.params[Tail(P[k])] = R[k]

\* C4 (amended): as above, but each :name is bound to the request segment at the
\* last position where :name occurs in the pattern.
C4_ExactMatchBindsLastPosition ==
    Served =>
        \A i \in ExactRoutes :
            LET P == splitPath(routes[i].pattern)
                R == Segments(resp.path)
                pos == ParamPositions(P, Len(P))
            IN  /\ matchRoute(routes[i].pattern, resp.path).matched
                       <=> ExactMatch(routes[i].pattern, resp.path)
                /\ resp.route = i =>
                       /\ DOMAIN resp.params = {Tail(P[k]) : k \in pos}
                       /\ \A k \in pos :
                              (\A j \in pos : P[j] = P[k] => j <= k)
                                  => resp.params[Tail(P[k])] = R[k]

\* GET /u/:i wins GET /u/4 with i = "4"
C4_Witness ==
    /\ Served
    /\ resp.route # 0
    /\ Winner.pattern = <<"/", "u", "/", ":", "i">>
    /\ resp.path = <<"/", "u", "/", "4">>
    /\ resp.params = [n \in {<<"i">>} |-> <<"4">>]

-----------------------------------------------------------------------------
(* C5 *)

\* C5: a route whose last of n segments is the wildcard matches exactly when the
\* request has at least n-1 segments and its first n-1 agree with the pattern's;
\* when segments remain, params["*"] is the rest of the path.
C5_WildcardMatch ==
    Served =>
        \A i \in WildcardRoutes :
            LET P == splitPath(routes[i].pattern)
                R == Segments(resp.path)
            IN  /\ matchRoute(routes[i].pattern, resp.path).matched
                       <=> WildcardMatch(routes[i].pattern, resp.path)
                /\ (resp.route = i /\ Len(R) > Len(P) - 1) =>
                       /\ <<"*">> \in DOMAIN resp.params
                       /\ resp.params[<<"*">>] = RestOfPath(resp.path, Len(P) - 1)

\* /f/* wins /f/a/b with "*" bound to a/b
C5_Witness ==
    /\ Served
    /\ resp.route # 0
    /\ Winner.pattern = <<"/", "f", "/", "*">>
    /\ resp.path = <<"/", "f", "/", "a", "/", "b">>
    /\ resp.params = [n \in {<<"*">>} |-> <<"a", "/", "b">>]

-----------------------------------------------------------------------------
(* C6 *)

\* C6: a route whose pattern failed validation at registration is never the route
\* a request is dispatched to.
C6_InvalidRouteNeverDispatched ==
    (Served /\ resp.route # 0) => reg[resp.route].valid

-----------------------------------------------------------------------------
(* C7 *)

NonEmptyParts(s) == SelectSeq(Split(s), LAMBDA part : part # <<>>)

\* C7: a pattern isValidPattern accepts has '*' only as a whole segment, and only
\* as its last segment.
C7_WildcardOnlyLastSegment ==
    (pres.op = "validate" /\ pres.ok) =>
        LET parts == NonEmptyParts(pin)
        IN  \A k \in 1..Len(parts) :
                Contains(parts[k], "*") => parts[k] = <<"*">> /\ k = Len(parts)

-----------------------------------------------------------------------------
(* C8 *)

WellFormed(p) ==
    /\ HasPrefix(p, "/")
    /\ \A k \in 1..(Len(p) - 1) : ~(p[k] = "/" /\ p[k + 1] = "/")
    /\ HasSuffix(p, "/") => p = <<"/">>

\* C8: a route registered on a group of the chain Group(p1)...Group(pk) with
\* pattern q is stored under normalize(p1 + ... + pk + q), which has one leading
\* slash, no two consecutive slashes and no trailing slash unless it is the root.
C8_NestedPrefixNormalized ==
    \A i \in 1..Len(routes) :
        reg[i].via = "group" =>
            /\ routes[i].pattern = normalizedPattern(Concat(reg[i].chain) \o reg[i].q)
            /\ WellFormed(routes[i].pattern)

-----------------------------------------------------------------------------
(* C9 *)

\* C9: Group.Group gives the child the parent's list followed by the new
\* middlewares and leaves every existing group's prefix and list as they were; a
\* Use on one group changes no other group's list.
C9_ChildOwnStorage ==
    [][ /\ Len(groups') > Len(groups) =>
              /\ \A g \in 1..Len(groups) :
                    /\ groups'[g].prefix = groups[g].prefix
                    /\ GroupMws(groups', heap', g) = GroupMws(groups, heap, g)
              /\ LET c == groups'[Len(groups')]
                 IN  c.parent # 0 =>
                        GroupMws(groups', heap', Len(groups'))
                            = GroupMws(groups, heap, c.parent) \o c.given
        /\ Len(groups') = Len(groups) =>
              \A g, h \in 1..Len(groups) :
                  (g # h /\ groups'[g].middlewares.len # groups[g].middlewares.len)
                      => GroupMws(groups', heap', h) = GroupMws(groups, heap, h)
      ]_vars

\* a child made from a parent that holds middlewares, then a Use on the parent:
\* the child still holds what it was given
C9_Witness ==
    \E p, c \in 1..Len(groups) :
        /\ groups[c].parent = p
        /\ groups[c].given # <<>>
        /\ Len(GroupMws(groups, heap, p)) > Len(GroupMws(groups, heap, c)) - Len(groups[c].given)
        /\ Len(GroupMws(groups, heap, c)) = 2

-----------------------------------------------------------------------------
(* C10 *)

\* C10: normalizing a normalized pattern changes nothing.
C10_NormalizeIdempotent ==
    pres.op = "normalize2" => pres.out = pres.prev

\* "a//" normalizes to "/a", and so does "/a"
C10_Witness ==
    /\ pres.op = "normalize2"
    /\ pin = <<"a", "/", "/">>
    /\ pres.prev = <<"/", "a">>
    /\ pres.out = <<"/", "a">>

-----------------------------------------------------------------------------
(* C11 *)
\* C11: whenever a route handler or a middleware panics while serving a request,
\* the recovery wrapper catches it and the status recorded for the request is
\* 500, also when the handler had already written a status or part of the body.
C11_PanicYields500 ==
    (Served /\ resp.panics) => resp.status = StatusInternalServerError

-----------------------------------------------------------------------------
(* Vocabulary of the hub properties *)

SendOnClosed(by) == Panic(by, "send on closed channel")

\* the copies of broadcast payload number i ever enqueued on connection c
Copies(c, i) == Cardinality({k \in 1..Len(conns[c].enq) : conns[c].enq[k] = <<"b", i>>})

\* the loop has finished with broadcast call number i (or never took it)
Processed(i) == hubs[bcasts[i].hub].message # <<"b", i>>

\* this step is the fan-out iteration of hub h on connection c
FanOutStep(h, c) ==
    /\ hubs[h].pc = "broadcast"
    /\ c \in hubs[h].pending
    /\ \/ hubs'[h].pending = hubs[h].pending \ {c}
       \/ /\ conns[c].chClosed
          /\ SendOnClosed("run") \in wsPanics' \ wsPanics

\* this step is hub h's handling of the unregister request it has received
UnregisterStep(h) ==
    /\ hubs[h].pc = "unregister"
    /\ hubs'[h] # hubs[h]

\* this step is a transition of hub h's loop and of no other task: no call is
\* made, no sender, pump or Upgrade call moves, the manager is untouched
LoopStepOnly(h) ==
    /\ hubs[h].pc \in {"register", "unregister", "broadcast"}
    /\ wsCalls' = wsCalls
    /\ sends' = sends
    /\ wmHubs' = wmHubs
    /\ Len(hubs') = Len(hubs)
    /\ Len(conns') = Len(conns)
    /\ \A c \in ConnIds : conns'[c].pc = conns[c].pc /\ conns'[c].wp = conns[c].wp
                          /\ conns'[c].closeCalls = conns[c].closeCalls
    /\ \A g \in HubIds \ {h} : hubs'[g] = hubs[g]

-----------------------------------------------------------------------------
(* C12 *)
\* C12: once a connection's outbound queue has been closed, neither Send (alone
\* or through SendToConnection) nor the hub's broadcast fan-out ever attempts to
\* enqueue on it again.  In Go every such attempt is a "send on closed channel"
\* panic, so the claim says that no such panic is ever raised by them.
C12_NoEnqueueAfterClose ==
    SendOnClosed("send") \notin wsPanics /\ SendOnClosed("run") \notin wsPanics

-----------------------------------------------------------------------------
(* C13 *)
\* C13: a Broadcast call made while k connections are registered, each with
\* free capacity, puts exactly one copy of its payload on each of the k queues,
\* whatever the loop is doing at the moment of the call: no call is lost.
C13_BroadcastReachesAll ==
    \A i \in 1..Len(bcasts) :
        (bcasts[i].free = bcasts[i].registered /\ Processed(i) /\ Live)
            => \A c \in bcasts[i].registered : Copies(c, i) = 1

-----------------------------------------------------------------------------
(* C14 *)
\* C14: when the fan-out of a broadcast comes to a connection whose queue is
\* full, that queue is closed and the connection leaves the hub's map in that
\* same step, without a panic, so that the loop goes on to the other
\* connections; a connection with free capacity gets the payload.
C14_SlowConsumerDropped ==
    [][\A h \in HubIds : \A c \in hubs[h].pending :
          FanOutStep(h, c) =>
              IF Len(conns[c].queue) = sendCap
              THEN /\ conns'[c].chClosed
                   /\ c \notin hubs'[h].connections
                   /\ wsPanics' = wsPanics
              ELSE conns[c].chClosed \/ conns'[c].queue = Append(conns[c].queue, hubs[h].message)
      ]_vars

-----------------------------------------------------------------------------
(* C15 *)
\* C15: Close() never panics; after the first call the outbound queue and the
\* underlying stream are closed, and a later call changes nothing.
C15_CloseIdempotent ==
    /\ \A p \in wsPanics : p.by # "close"
    /\ \A c \in ConnIds :
          conns[c].closeCalls # "never" => conns[c].chClosed /\ conns[c].stream = "closed"

-----------------------------------------------------------------------------
(* C16 *)
\* C16: Send never fails towards its caller: it does not panic, whatever the
\* state of the connection (free capacity, full, marked closed, unregistered
\* or dropped by its hub), also when several tasks call it concurrently.
C16_SendNeverPanics ==
    \A p \in wsPanics : p.by # "send"

-----------------------------------------------------------------------------
(* C17 *)
\* C17: every insertion into and deletion from a hub's connections map is a
\* transition of that hub's own loop: the insert of the register case, the
\* delete of the unregister case, or the delete of a slow consumer during the
\* fan-out.  No call (Send, SendToConnection, Close, Broadcast, RemoveHub,
\* Upgrade) and no pump step changes a map.
C17_MapMutatedOnlyByLoop ==
    [][\A h \in HubIds :
          hubs'[h].connections # hubs[h].connections =>
              /\ LoopStepOnly(h)
              /\ \/ /\ hubs[h].pc = "register"
                    /\ hubs'[h].connections = hubs[h].connections \cup {hubs[h].cur}
                 \/ /\ hubs[h].pc = "unregister"
                    /\ hubs'[h].connections = hubs[h].connections \ {hubs[h].cur}
                 \/ /\ hubs[h].pc = "broadcast"
                    /\ \E c \in hubs[h].pending :
                          /\ hubs'[h].connections = hubs[h].connections \ {c}
                          /\ hubs'[h].pending = hubs[h].pending \ {c}
      ]_vars

\* a connection was inserted by the register case, served by a broadcast
\* fan-out, and deleted again by the loop
C17_Witness ==
    \E c \in ConnIds :
        /\ conns[c].pc \in {"reading", "unregister", "done"}
        /\ conns[c].chClosed
        /\ c \notin hubs[conns[c].hub].connections
        /\ hubs[conns[c].hub].pc = "select"
        /\ conns[c].enq # <<>>

-----------------------------------------------------------------------------
(* C18 *)
\* C18: every connection registered for a hub name is in the map of the hub
\* the manager holds for that name, for any interleaving of Upgrade calls and
\* any sequence of WebSocket route registrations.
C18_OneHubPerName ==
    \A h \in HubIds : \A c \in hubs[h].connections :
        wmHubs[hubs[h].name] = h

-----------------------------------------------------------------------------
(* C19 *)
\* C19: an Upgrade call whose registration timed out has returned with the
\* stream closed, its connection is in no hub's map, and neither of its pumps
\* was started.
C19_RegisterTimeout ==
    \A c \in ConnIds :
        conns[c].pc = "timeout" =>
            /\ conns[c].stream = "closed"
            /\ conns[c].wp = "none"
            /\ \A h \in HubIds : c \notin hubs[h].connections /\ hubs[h].cur # c

\* an Upgrade call timed out while its hub's loop was busy with another
\* connection, which it went on to register
C19_Witness ==
    \E c, d \in ConnIds :
        /\ conns[c].pc = "timeout"
        /\ d # c /\ conns[d].hub = conns[c].hub
        /\ d \in hubs[conns[d].hub].connections

-----------------------------------------------------------------------------
(* C20 *)
\* C20: the loop's handling of an unregister request removes a connection that
\* is in the map and closes its queue, without a panic (the queue is closed
\* once); for a connection not in the map it changes nothing and panics not.
C20_UnregisterIdempotent ==
    [][\A h \in HubIds :
          UnregisterStep(h) =>
              LET c == hubs[h].cur
              IN  IF c \in hubs[h].connections
                  THEN /\ c \notin hubs'[h].connections
                       /\ ~conns[c].chClosed /\ conns'[c].chClosed
                       /\ wsPanics' = wsPanics
                  ELSE /\ hubs'[h].connections = hubs[h].connections
                       /\ conns' = conns
                       /\ wsPanics' = wsPanics
      ]_vars

-----------------------------------------------------------------------------
(* C24 *)

\* the pattern accepts the path, by the kind of its last segment
StructuralMatch(pattern, path) ==
    IF EndsInWildcard(pattern) THEN WildcardMatch(pattern, path)
    ELSE ExactMatch(pattern, path)

\* the events of route handlers and of route-level middlewares in a trace
RouteEvents(trace) ==
    {k \in 1..Len(trace) :
        \/ trace[k][1] = "handler"
        \/ trace[k][1] \in {"in", "out"} /\ trace[k][2][1] = "D"}

\* C24: a request for which no route has both its method and a pattern that
\* structurally matches its path (routes of another method may match) is
\* answered 404; no route handler and no route-level middleware runs, and the
\* params stay empty.
C24_NoMatchIsNotFound ==
    (Served /\ \A i \in 1..Len(routes) :
                  routes[i].method = resp.method
                      => ~StructuralMatch(routes[i].pattern, resp.path))
        => /\ resp.status = StatusNotFound
           /\ resp.route = 0
           /\ resp.ran = <<>>
           /\ RouteEvents(resp.trace) = {}
           /\ resp.params = EmptyParams

\* POST /u/a when only GET /u/a, with a middleware of its own, is registered
C24_Witness ==
    /\ Served
    /\ resp.method = "POST" /\ resp.path = <<"/", "u", "/", "a">>
    /\ Len(routes) = 1
    /\ routes[1].method = "GET" /\ routes[1].pattern = <<"/", "u", "/", "a">>
    /\ routes[1].middlewares # <<>>
    /\ resp.status = StatusNotFound

-----------------------------------------------------------------------------
(* C27 *)

\* C27: whenever a wildcard route wins, the params contain the key "*", bound
\* to the request's remaining segments joined by "/": to the empty string when
\* the request has exactly the n-1 segments before the wildcard.
C27_WildcardKeyAlwaysBound ==
    (Served /\ resp.route # 0 /\ EndsInWildcard(Winner.pattern)) =>
        /\ <<"*">> \in DOMAIN resp.params
        /\ resp.params[<<"*">>]
              = RestOfPath(resp.path, Len(splitPath(Winner.pattern)) - 1)

-----------------------------------------------------------------------------
(* C28 *)

\* C28: dispatching a path selects the same route and binds the same params as
\* dispatching its normalized form: duplicate slashes and a trailing slash in
\* the request path change nothing.
C28_NormalizationInvariant ==
    Served =>
        LET n == serveContext(routes, resp.method, normalizedPattern(resp.path))
        IN  /\ n.route = resp.route
            /\ n.params = resp.params
            /\ n.status = resp.status

\* GET //u//4/ is won by /u/:i with i = "4", as GET /u/4 is
C28_Witness ==
    /\ Served
    /\ resp.path = <<"/", "/", "u", "/", "/", "4", "/">>
    /\ normalizedPattern(resp.path) = <<"/", "u", "/", "4">>
    /\ resp.route # 0
    /\ Winner.pattern = <<"/", "u", "/", ":", "i">>
    /\ resp.params = [n \in {<<"i">>} |-> <<"4">>]

-----------------------------------------------------------------------------
(* C25 *)

\* this step serves a request
ServeStep == resp' # resp

\* C25: a request whose panic is recovered leaves the route table, the global
\* middleware list and the hub manager as they were; the request served after
\* it is matched against that same table and runs that same chain: it is won by
\* the route, binds the params and runs the middlewares and the handler that
\* the table and the list give for its method and path.
C25_PanicLeavesTablesAlone ==
    [][/\ (ServeStep /\ resp'.panics) =>
              /\ routes' = routes
              /\ appMiddlewares' = appMiddlewares
              /\ wsManager' = wsManager /\ wmHubs' = wmHubs /\ hubs' = hubs
       /\ (Served /\ resp.panics /\ ServeStep /\ ~resp'.panics) =>
              LET b == buildHandler(appMiddlewares, routes, resp'.method, resp'.path)
              IN  /\ resp'.route = b.route
                  /\ resp'.params = b.params
                  /\ resp'.ran = b.ran
                  /\ resp'.trace = b.trace
      ]_vars

\* a panic of the handler of a matched route was recovered, with a global
\* middleware installed and a hub registered in the manager
C25_Witness ==
    /\ Served
    /\ resp.panics /\ resp.route # 0
    /\ appMiddlewares # <<>>
    /\ wsManager /\ hubs # <<>>

-----------------------------------------------------------------------------
(* The scope of a WebSocket request *)

\* the upgrade of connection c succeeded: c has a stream
Upgraded(c) == conns[c].stream # "none"

\* C21: the request of a WebSocket upgrade is never cancelled by the
\* app-wide request timeout: the scope of every connection that was upgraded
\* is the request's own context, and the deadline never ends it
C21_UpgradeNotTimedOut ==
    \A c \in ConnIds :
        Upgraded(c) => conns[c].scope = "request" /\ ~conns[c].ctxDone

\* C30: once RemoveHub has cancelled the scope of a hub, the scope of every
\* connection still registered with that hub is cancelled as well
C30_HubCancelCancelsConnections ==
    \A h \in HubIds :
        hubs[h].cancelled => \A c \in hubs[h].connections : CtxDone(c)

-----------------------------------------------------------------------------
(* Readers of the connections map *)

\* task t is inside the read section of SendToConnection or of
\* GetConnectionCount on hub h
ReadsMap(t, h) == sends[t].pc # "idle" /\ sends[t].hub = h

\* the step inserts into or deletes from the connections map of hub h
MutatesMap(h) == hubs'[h].connections # hubs[h].connections

\* C22: no step inserts into or deletes from the connections map of a hub
\* while a task is inside GetConnectionCount or SendToConnection on that hub
C22_MapReadersExcluded ==
    [][\A h \in HubIds : MutatesMap(h) => \A t \in Senders : ~ReadsMap(t, h)]_vars

-----------------------------------------------------------------------------
(* Shutdown and the open connections *)

\* connection c is torn down: its queue is closed, its stream is closed, its
\* write pump has returned and so has its read pump, Upgrade with it
TornDown(c) ==
    /\ conns[c].chClosed
    /\ conns[c].stream = "closed"
    /\ conns[c].wp = "done"
    /\ Returned(c)

\* a step of a task the program has started or of a call under way
TaskStep ==
    \/ NextHubTasks
    \/ \E t \in Senders : GetConnectionCountReturn(t)
    \/ \E c \in ConnIds : ReadPumpCancelled(c)

\* no task can take a step: the hubs' loops and the pumps all wait for an
\* event from outside, and no call is under way
Quiescent == Live /\ ~ENABLED TaskStep

\* connection c was established: its pumps were started
Established(c) == conns[c].wp # "none"

\* C23: once App.Shutdown has returned and the program's tasks have done all
\* they can, every connection that was established is torn down
C23_ShutdownClosesConnections ==
    (shutdown /\ Quiescent) => \A c \in ConnIds : Established(c) => TornDown(c)

-----------------------------------------------------------------------------
(* The end of a connection whose read fails *)

\* the read pump of connection c has left its loop: a read failed
ReadEnded(c) == conns[c].pc \in {"unregister", "done"}

\* connection c is no longer in the map of its hub
Removed(c) == c \notin hubs[conns[c].hub].connections

\* C29: once a read of a connection has failed and the program's tasks have
\* done all they can, the connection is out of its hub's map and torn down:
\* the unregister request was taken, the queue and the stream are closed and
\* both pumps have returned
C29_ReadErrorCleansUp ==
    \A c \in ConnIds :
        (ReadEnded(c) /\ ~ENABLED TaskStep) => Removed(c) /\ TornDown(c)

\* the same, as long as no panic has ended the process: this much holds
ReadErrorCleansUpWhileLive ==
    \A c \in ConnIds :
        (ReadEnded(c) /\ Quiescent) => Removed(c) /\ TornDown(c)

-----------------------------------------------------------------------------
(* The order of broadcast payloads *)

\* payloads carry the number of the Broadcast call that handed them over
PayloadsInOrder(q) == \A i, j \in 1..Len(q) : i < j => q[i][2] < q[j][2]

IsPrefix(p, q) == Len(p) <= Len(q) /\ \A i \in 1..Len(p) : p[i] = q[i]

\* C26: the payloads a connection receives from its hub are enqueued in the
\* order in which they were handed to the hub, and the write pump writes
\* them to the stream in that same order
C26_BroadcastOrder ==
    \A c \in ConnIds :
        /\ PayloadsInOrder(conns[c].enq)
        /\ IsPrefix(conns[c].out, conns[c].enq)

\* two payloads were handed to a hub, both reached a connection and both
\* were written by its write pump
C26_Witness ==
    \E c \in ConnIds :
        /\ Len(conns[c].enq) = 2
        /\ conns[c].out = conns[c].enq
        /\ \A b \in 1..Len(bcasts) : bcasts[b].accepted

-----------------------------------------------------------------------------
(* The channels of a hub that has shut down *)

\* the tasks that send on a hub's channels: Upgrade on register, the read
\* pump on unregister, Hub.Broadcast on broadcast
HubChannelSenders == {"upgrade", "readPump", "broadcast"}

\* C31: no task sends on the register, unregister or broadcast channel of a
\* hub after the hub's loop has closed it: no such send panics
C31_NoSendOnClosedHubChannel ==
    \A p \in wsPanics : ~(p.by \in HubChannelSenders /\ p = SendOnClosed(p.by))

-----------------------------------------------------------------------------
(* The close of a connection's queue *)

CloseOfClosed(by) == Panic(by, "close of closed channel")

\* C32: the outbound queue of a connection is closed at most once: no task
\* (the hub's loop in its unregister case or its fan-out, Send, Close) closes
\* a queue that is closed already, which in Go is a panic
C32_QueueClosedAtMostOnce ==
    \A p \in wsPanics : p # CloseOfClosed(p.by)

-----------------------------------------------------------------------------
(* The removal of a hub *)

\* hub h is in ShuttingDown: its loop has returned and closed its channels
ShuttingDown(h) == hubs[h].pc = "stopped"

\* what RemoveHub(name) makes of the manager's map and the hubs
Removal(name) == removeHub(hubs, wmHubs, name)

\* C33: RemoveHub(name) on an existing hub cancels the hub's scope and takes
\* it out of the manager's map, and touches nothing else; on a name with no
\* hub it changes nothing.  A cancelled hub is not in the manager's map; its
\* loop, blocked in its select, can enter ShuttingDown; and ShuttingDown is
\* terminal: the hub never changes again, so it takes no further register,
\* unregister or broadcast request.
C33_RemoveHub ==
    /\ [](\A name \in HubNames :
            IF wmHubs[name] # 0
            THEN /\ Removal(name).hubs[wmHubs[name]].cancelled
                 /\ Removal(name).wm[name] = 0
                 /\ \A n \in HubNames \ {name} : Removal(name).wm[n] = wmHubs[n]
                 /\ \A h \in HubIds \ {wmHubs[name]} : Removal(name).hubs[h] = hubs[h]
            ELSE Removal(name).hubs = hubs /\ Removal(name).wm = wmHubs)
    /\ [](\A h \in HubIds :
            /\ hubs[h].cancelled => wmHubs[hubs[h].name] # h
            /\ (Live /\ hubs[h].cancelled /\ hubs[h].pc = "select") => ENABLED HubStop(h))
    /\ [][\A h \in HubIds : ShuttingDown(h) => hubs'[h] = hubs[h]]_vars

\* a hub was removed while a connection was registered with it, its loop has
\* entered ShuttingDown, and calls were made after that
C33_Witness ==
    \E h \in HubIds :
        /\ ShuttingDown(h)
        /\ hubs[h].connections # {}
        /\ wmHubs[hubs[h].name] = 0
        /\ wsCalls = MaxOpsCalls

-----------------------------------------------------------------------------
(* The pumps of a connection whose scope is cancelled *)

\* the scope of connection c is cancelled while both of its pumps run, the
\* read pump blocked in its read
CancelledRunning(c) ==
    IF c \in ConnIds
    THEN conns[c].wp = "running" /\ conns[c].pc = "reading" /\ CtxDone(c)
    ELSE FALSE

\* the write pump of c has returned and closed the stream, and the read pump
\* has left its loop
PumpsEnded(c) ==
    IF c \in ConnIds
    THEN conns[c].wp = "done" /\ conns[c].stream = "closed" /\ conns[c].pc # "reading"
    ELSE FALSE

\* C34: once the scope of a connection is cancelled while its pumps run, the
\* write pump returns and closes the stream and the read pump, blocked in
\* its read, leaves its loop (unless a panic has ended the process first)
C34_CancelEndsPumps ==
    \A c \in CancelConns :
        CancelledRunning(c) ~> (PumpsEnded(c) \/ Crashed)

\* the scope of a connection was cancelled while both pumps ran, and both
\* have ended since
C34_Witness ==
    \E c \in ConnIds : conns[c].ctxDone /\ PumpsEnded(c) /\ conns[c].closes > 0

-----------------------------------------------------------------------------
(* Send on a full queue *)

\* this step is the return of a Send by task t that had found the queue full
FullSendReturns(t) == sends[t].pc \in {"close", "mark"} /\ sends'[t].pc = "idle"

\* C36: a Send that found the queue full returns with the connection marked
\* closed and its queue closed, and without a panic; on a connection marked
\* closed no Send enqueues its payload any more, the mark stays, and no step
\* of a Send closes its queue
C36_FullQueueSendCloses ==
    [][/\ \A t \in Senders :
              FullSendReturns(t) =>
                  /\ conns'[sends[t].conn].closed
                  /\ conns'[sends[t].conn].chClosed
                  /\ wsPanics' = wsPanics
       /\ \A c \in ConnIds :
              conns[c].closed =>
                  /\ conns'[c].closed
                  /\ conns'[c].queue # Append(conns[c].queue, <<"s", 0>>)
                  /\ sends' # sends => conns'[c].chClosed = conns[c].chClosed
      ]_vars

-----------------------------------------------------------------------------
(* The access log of a request *)

\* the events of one kind in the access log of the request served
LogEvents(kind) == {k \in 1..Len(resp.log) : resp.log[k][1] = kind}

\* C35: a request for which the logger logged a start event has exactly one
\* completion event in the log, and that event carries the final status of
\* the response, whether the chain returned or panicked
C35_StartedIsCompleted ==
    (Served /\ LogEvents("started") # {}) =>
        /\ Cardinality(LogEvents("completed")) = 1
        /\ \A k \in LogEvents("completed") : resp.log[k][2] = resp.status

-----------------------------------------------------------------------------
(* A message handler that panics *)

\* this step dispatches, on a message of connection c, a handler that panics
PanickingDispatch(c) ==
    /\ Len(conns'[c].handled) = Len(conns[c].handled) + 1
    /\ conns'[c].handled[Len(conns'[c].handled)] = "panicked"

\* C37: the panic of a message handler stays in the handler's own task: the
\* read pump is still reading after it, nothing of the connection but the
\* record of the handler changes, the connection's hub and its map are
\* untouched, and no panic leaves the task
C37_HandlerPanicConfined ==
    [][\A c \in ConnIds :
          PanickingDispatch(c) =>
              /\ conns'[c].pc = "reading"
              /\ conns'[c] = [conns[c] EXCEPT !.handled = conns'[c].handled]
              /\ hubs' = hubs
              /\ wsPanics' = wsPanics
      ]_vars

\* a handler panicked on a message of a registered connection, and the
\* handler of a later message of the same connection has run and returned
C37_Witness ==
    \E c \in ConnIds :
        /\ conns[c].handled = <<"panicked", "returned">>
        /\ conns[c].pc = "reading"
        /\ c \in hubs[conns[c].hub].connections

-----------------------------------------------------------------------------
(* The status of a response *)

\* the status the first call on the writer decides: the code of a WriteHeader,
\* 200 for a body, and the default 200 when nothing was called
FirstStatus(calls) ==
    IF calls = <<>> THEN StatusOK
    ELSE IF calls[1][1] = "WriteHeader" THEN calls[1][2]
    ELSE StatusOK

\* C38: the status recorded for a response is the one its first call decides:
\* later WriteHeader calls do not change it, and the WriteHeader of the
\* underlying writer is called at most once, with that status
C38_FirstWriteHeaderWins ==
    Served =>
        /\ resp.status = FirstStatus(resp.calls)
        /\ Len(resp.sink) <= 1
        /\ \A k \in 1..Len(resp.sink) : resp.sink[k] = resp.status

\* a handler set a status and then another one, or a status after the body,
\* or panicked after its status so that recovery called WriteHeader(500)
C38_Witness ==
    /\ Served
    /\ Cardinality({k \in 1..Len(resp.calls) : resp.calls[k][1] = "WriteHeader"}) >= 2
    /\ resp.calls[1] = <<"WriteHeader", StatusCreated>>
    /\ resp.status = StatusCreated

-----------------------------------------------------------------------------
(* The params of the winning route *)

\* the keys the matching of a pattern can bind: the names of its parameter
\* segments, and "*" when it ends in the wildcard
ParamKeys(pattern) ==
    LET P == splitPath(pattern)
    IN  {Tail(P[k]) : k \in ParamPositions(P, Len(P))}
            \cup (IF EndsInWildcard(pattern) THEN {<<"*">>} ELSE {})

\* the value key x has in the params is the request segment at a parameter
\* segment of that name, or what the wildcard captures
BoundByPattern(pattern, path, x, v) ==
    LET P == splitPath(pattern)
        R == Segments(path)
    IN  \/ \E k \in ParamPositions(P, Len(P)) : Tail(P[k]) = x /\ k <= Len(R) /\ v = R[k]
        \/ x = <<"*">> /\ EndsInWildcard(pattern)

\* C39: the params the winning route's handler sees hold only bindings made
\* while matching that route: every key is a parameter of its pattern (or
\* the wildcard) with the value that matching gives it, whatever earlier
\* routes bound before they were rejected; and when no route matches, the
\* params of the request are the empty ones it started with
C39_ParamsOfWinnerOnly ==
    Served =>
        IF resp.route = 0
        THEN resp.params = EmptyParams
        ELSE /\ DOMAIN resp.params \subseteq ParamKeys(Winner.pattern)
             /\ \A x \in DOMAIN resp.params :
                    BoundByPattern(Winner.pattern, resp.path, x, resp.params[x])

\* /:k/a bound k and was rejected at its second segment, and the next route,
\* /u/:i, won
C39_Witness ==
    /\ Served
    /\ resp.route = 2
    /\ routes[1].pattern = <<"/", ":", "k", "/", "a">>
    /\ routes[1].method = resp.method
    /\ routes[2].pattern = <<"/", "u", "/", ":", "i">>
    /\ resp.path = <<"/", "u", "/", "4">>
    /\ DOMAIN resp.params = {<<"i">>}

=============================================================================
